---- MODULE Spec2Model ----
(***************************************************************************)
(* A model of remuxer.c (L-SMASH): the command line of parse_cli_option    *)
(* and parse_track_option, the brand selection of set_movie_parameters,    *)
(* the track mapping of main, the sample interleaving loop of main with    *)
(* the steps that follow it, and the cleanup of remuxer_error.             *)
(*                                                                         *)
(* A movie_t is a record; its fields keep the names of the C struct.  The  *)
(* pointers root, itunes_meta_list and track are modelled by a BOOLEAN     *)
(* (TRUE: not NULL); the content of the track array is the field "track"   *)
(* and the media timelines that lsmash_construct_timeline builds inside    *)
(* root are the field "timeline" (one sequence of DTS per track).          *)
(* The output file behind output.root is the variable sink.                *)
(*                                                                         *)
(* A C string is a sequence of lexemes: ":", "=", ",", "?", a digit, or a  *)
(* word ("alternate-group", "language", "jpn", "x", a file name) that      *)
(* stands for its characters, none of which is a delimiter or a digit.     *)
(* NULL is the empty sequence (strtok never returns an empty token).       *)
(* The files that the names of the command line stand for are the variable *)
(* disk.  What malloc, lsmash_open_movie, lsmash_export_itunes_metadata    *)
(* and lsmash_get_sample_from_media_timeline have handed out and what was  *)
(* given back is counted in the variable heap; stderr is what was printed. *)
(*                                                                         *)
(* Seconds ((double)dts / timescale) are exact fractions <<dts, timescale>>*)
(* compared by cross multiplication; for the tick values and timescales of *)
(* the model (far below 2^26) the IEEE double quotient orders the same.    *)
(*                                                                         *)
(* Every modelled source has at least one track: with a source of zero     *)
(* tracks main reads track[0] of an empty array, which this model does not *)
(* cover.                                                                  *)
(***************************************************************************)
EXTENDS Integers, Sequences, FiniteSets, TLC

VARIABLES argv, disk, cli, track_option, heap, stderr,
          input, output, sink, input_movie_number, largest_dts,
          num_consecutive_sample_skip, num_active_input_tracks,
          visits_without_transfer, pc

vars == <<argv, disk, cli, track_option, heap, stderr,
          input, output, sink, input_movie_number, largest_dts,
          num_consecutive_sample_skip, num_active_input_tracks,
          visits_without_transfer, pc>>

(***************************************************************************)
(* Bounds of the model.                                                    *)
(***************************************************************************)
MaxOutputTracks == 2
MaxTotalSamples == 3
MaxDts == 1
MaxTimescale == 2
ScenMaxSamples == 3
ScenMaxDts == 2
MaxBrandInput == 4
MaxBrand == 2
MaxMinorVersion == 1
MaxTotalBrands == 3
MaxFileTracks == 2
MaxItems == 3
MaxSegments == 2
MaxOptions == 1

(***************************************************************************)
(* Helpers.                                                                *)
(***************************************************************************)
RECURSIVE SumSeq(_)
SumSeq(s) == IF s = <<>> THEN 0 ELSE Head(s) + SumSeq(Tail(s))

Range(s) == {s[k] : k \in 1..Len(s)}

\* (double)dts / input_media_timescale, as an exact fraction.
Seconds(dts, timescale) == <<dts, timescale>>

\* a <= b on fractions with positive denominators.
SecondsLeq(a, b) == a[1] * b[2] <= b[1] * a[2]

LSMASH_MAX_second(a, b) == b

\* #define LSMASH_MAX( a, b ) ((a) > (b) ? (a) : (b))
LSMASH_MAX(a, b) == IF ~SecondsLeq(a, b) THEN a ELSE b

(***************************************************************************)
(* The functions of <string.h> and <stdlib.h> that the parsers call, on    *)
(* sequences of lexemes.  A position is an index of the sequence; 0 is     *)
(* the NULL that strchr and strrchr return.                                *)
(***************************************************************************)
NULL == <<>>

strchr(s, c) ==
    IF \E k \in 1..Len(s) : s[k] = c
    THEN CHOOSE k \in 1..Len(s) : s[k] = c /\ \A m \in 1..(k - 1) : s[m] # c
    ELSE 0

strrchr(s, c) ==
    IF \E k \in 1..Len(s) : s[k] = c
    THEN CHOOSE k \in 1..Len(s) : s[k] = c /\ \A m \in (k + 1)..Len(s) : s[m] # c
    ELSE 0

\* The first position from p on whose lexeme is (wanted = TRUE) or is not
\* (wanted = FALSE) one of delim; Len(s) + 1 when there is none.
RECURSIVE Scan(_, _, _, _)
Scan(s, p, delim, wanted) ==
    IF p > Len(s) THEN Len(s) + 1
    ELSE IF (s[p] \in delim) = wanted THEN p
    ELSE Scan(s, p + 1, delim, wanted)

\* strtok on the string s with the saved position p: the delimiters at p
\* are passed over, the token runs to the next delimiter, and the position
\* saved for the next call is behind that delimiter.  token is NULL when
\* only delimiters (or nothing) are left.
strtok(s, p, delim) ==
    LET start == Scan(s, p, delim, FALSE)
        stop  == Scan(s, start, delim, TRUE)
    IN  [ token |-> SubSeq(s, start, stop - 1),
          next  |-> IF stop > Len(s) THEN Len(s) + 1 ELSE stop + 1 ]

\* The first n results of strtok( whole, delim ), strtok( NULL, delim ), ...
RECURSIVE Tokens(_, _, _, _)
Tokens(s, p, delim, n) ==
    IF n = 0 THEN <<>>
    ELSE <<strtok(s, p, delim).token>> \o Tokens(s, strtok(s, p, delim).next, delim, n - 1)

DigitChars == <<"0", "1", "2", "3", "4", "5", "6", "7", "8", "9">>

IsDigit(c) == \E d \in 1..Len(DigitChars) : DigitChars[d] = c

DigitValue(c) == (CHOOSE d \in 1..Len(DigitChars) : DigitChars[d] = c) - 1

\* atoi: the value of the digits the string starts with, 0 when it starts
\* with none (the strings of the model have no blank and no sign).
RECURSIVE atoi_digits(_, _, _)
atoi_digits(s, k, value) ==
    IF k > Len(s) \/ ~IsDigit(s[k]) THEN value
    ELSE atoi_digits(s, k + 1, value * 10 + DigitValue(s[k]))

atoi(s) == atoi_digits(s, 1, 0)

\* strstr( s, t ) != NULL
strstr(s, t) == \E k \in 1..(Len(s) - Len(t) + 1) : SubSeq(s, k, k + Len(t) - 1) = t

\* strcasecmp with "-i" / "--input" and with "-o" / "--output".
IsInputOption(arg) == arg \in {<<"-i">>, <<"--input">>}

IsOutputOption(arg) == arg \in {<<"-o">>, <<"--output">>}

\* lsmash_pack_iso_language: the packed code of a language text.
lsmash_pack_iso_language(text) == [packed |-> text]

(***************************************************************************)
(* get_movie: the movie_t of an opened input.                              *)
(*   media: the tracks of the file, each its timescale and its timeline    *)
(*   (the DTS of its samples, in ticks); brand: the file's ftyp data.      *)
(* Track IDs are the track numbers; the last sample lasts one second.      *)
(* alternate_group stands for track_param.alternate_group, ISO_language    *)
(* for media_param.ISO_language and timescale for media_param.timescale.   *)
(***************************************************************************)
\* lsmash_initialize_movie_parameters.
NoMovieParameters == [major_brand |-> 0, minor_version |-> 0, brands |-> <<>>]

\* A movie_t after memset( input, 0, ... ) (line 369).
NoMovie ==
    [ root                 |-> FALSE,
      itunes_meta_list     |-> FALSE,
      track_alloc          |-> FALSE,
      num_tracks           |-> 0,
      current_track_number |-> 0,
      movie_param          |-> NoMovieParameters,
      timeline             |-> <<>>,
      track                |-> <<>> ]

get_movie(media, brand) ==
    [ root                 |-> TRUE,
      itunes_meta_list     |-> TRUE,
      track_alloc          |-> TRUE,
      num_tracks           |-> Len(media),
      current_track_number |-> 1,
      movie_param          |-> brand,
      timeline             |-> [j \in 1..Len(media) |-> media[j].timeline],
      track                |-> [j \in 1..Len(media) |->
                                 [ track_ID                    |-> j,
                                   last_sample_delta           |-> media[j].timescale,
                                   current_sample_number       |-> 1,
                                   reach_end_of_media_timeline |-> FALSE,
                                   alternate_group             |-> media[j].alternate_group,
                                   ISO_language                |-> media[j].ISO_language,
                                   timescale                   |-> media[j].timescale ]] ]

\* The places where get_movie returns an error: the name is "-", the open
\* fails, the track array is not allocated, a track ID is 0, or, for the
\* track k, the metadata export fails ("metadata") or one of the four calls
\* behind it does ("track").
GetMovieFailures(name, file_exists, num_tracks) ==
    IF name = <<"-">> THEN {[at |-> "stdin", k |-> 0]}
    ELSE IF ~file_exists THEN {[at |-> "open", k |-> 0]}
    ELSE {[at |-> a, k |-> 0] : a \in {"open", "alloc", "track_ID"}}
         \cup {[at |-> a, k |-> k] : a \in {"metadata", "track"}, k \in 1..num_tracks}

\* The movie_t that a failing get_movie leaves behind: the pointers stand
\* as they were assigned up to the return; the rest of the structure is not
\* read again.  The export of line 143 overwrites itunes_meta_list, with
\* NULL when it fails.
get_movie_error(media, brand, failure) ==
    [ get_movie(media, brand) EXCEPT
        !.root             = failure.at \notin {"stdin", "open"},
        !.track_alloc      = failure.at \notin {"stdin", "open", "alloc"},
        !.itunes_meta_list = failure.at = "track" ]

\* The ERROR_MSG of get_movie at each of these places.
GetMovieMessage(failure) ==
    CASE failure.at = "stdin"    -> "Standard input not supported."
      [] failure.at = "open"     -> "Failed to open input file."
      [] failure.at = "alloc"    -> "Failed to alloc input tracks."
      [] failure.at = "track_ID" -> "Failed to get track_ID."
      [] failure.at = "metadata" -> "Failed to get iTunes metadata."
      [] failure.at = "track"    -> "Failed to get track parameters."

\* How many metadata lists lsmash_export_itunes_metadata has handed out
\* when get_movie returns: one per iteration of the loop of lines 141-157.
ExportedMetadataLists(num_tracks, failure) ==
    CASE failure.at = "none"     -> num_tracks
      [] failure.at = "metadata" -> failure.k - 1
      [] failure.at = "track"    -> failure.k
      [] OTHER                   -> 0

(***************************************************************************)
(* set_movie_parameters, first half: the most used major_brand.            *)
(***************************************************************************)
SameMajorBrand(a, b) ==
    a.major_brand = b.major_brand /\ a.minor_version = b.minor_version

\* The loop over j (lines 178-191) for the source i: the count of the
\* sources from i on with i's pair, or "exists" when an earlier one has it.
RECURSIVE CountMajorBrand(_, _, _, _)
CountMajorBrand(in, i, j, count) ==
    IF j > Len(in) THEN [exists |-> FALSE, count |-> count]
    ELSE IF SameMajorBrand(in[i].movie_param, in[j].movie_param)
         THEN IF i <= j THEN CountMajorBrand(in, i, j + 1, count + 1)
                        ELSE [exists |-> TRUE, count |-> 0]
         ELSE CountMajorBrand(in, i, j + 1, count)

\* The loop over i (lines 173-193): the arrays major_brand, minor_version
\* and major_brand_count, as one sequence of num_major_brand records.
RECURSIVE MajorBrandTable(_, _, _)
MajorBrandTable(in, i, table) ==
    IF i > Len(in) THEN table
    ELSE LET r == CountMajorBrand(in, i, 1, 0)
         IN  MajorBrandTable(in, i + 1,
                 IF r.exists THEN table
                 ELSE Append(table, [ major_brand   |-> in[i].movie_param.major_brand,
                                      minor_version |-> in[i].movie_param.minor_version,
                                      count         |-> r.count ]))

MoreUsedOrEqual(count, most_used_count) == count >= most_used_count

\* if( major_brand_count[i] > most_used_count )
MoreUsed(count, most_used_count) == count > most_used_count

\* The loop of lines 194-201; param is output->movie_param so far.
RECURSIVE MostUsedMajorBrand(_, _, _, _)
MostUsedMajorBrand(table, i, most_used_count, param) ==
    IF i > Len(table) THEN param
    ELSE IF MoreUsed(table[i].count, most_used_count)
         THEN MostUsedMajorBrand(table, i + 1, table[i].count,
                  [ major_brand   |-> table[i].major_brand,
                    minor_version |-> table[i].minor_version ])
         ELSE MostUsedMajorBrand(table, i + 1, most_used_count, param)

(***************************************************************************)
(* set_movie_parameters, second half: the compatible brands.               *)
(***************************************************************************)
\* Lines 208-210: all the sources' brands, in source order.
RECURSIVE InputBrands(_, _)
InputBrands(in, i) ==
    IF i > Len(in) THEN <<>>
    ELSE in[i].movie_param.brands \o InputBrands(in, i + 1)

BrandIsLastOutput(output_brands, brand) ==
    output_brands # <<>> /\ output_brands[Len(output_brands)] = brand

\* Lines 218-224: the brand is among the output brands found so far.
BrandExists(output_brands, brand) ==
    \E j \in 1..Len(output_brands) : output_brands[j] = brand

\* Lines 213-226; a brand of 0 is skipped.
RECURSIVE DeduplicateBrands(_, _, _)
DeduplicateBrands(input_brands, i, output_brands) ==
    IF i > Len(input_brands) THEN output_brands
    ELSE IF input_brands[i] = 0
         THEN DeduplicateBrands(input_brands, i + 1, output_brands)
         ELSE IF BrandExists(output_brands, input_brands[i])
              THEN DeduplicateBrands(input_brands, i + 1, output_brands)
              ELSE DeduplicateBrands(input_brands, i + 1,
                       Append(output_brands, input_brands[i]))

\* output->movie_param as set_movie_parameters leaves it.
set_movie_parameters(in) ==
    LET major == MostUsedMajorBrand(MajorBrandTable(in, 1, <<>>), 1, 0,
                     [major_brand |-> 0, minor_version |-> 0])
    IN  [ major_brand   |-> major.major_brand,
          minor_version |-> major.minor_version,
          brands        |-> DeduplicateBrands(InputBrands(in, 1), 1, <<>>) ]

(***************************************************************************)
(* parse_track_option.  io->track_option[i] is a record: alloc says that   *)
(* the pointer is not NULL, track is the array of track_media_option.      *)
(***************************************************************************)
\* track_option[i] after memset( track_option, 0, ... ) (line 370).
NoTrackOption == [alloc |-> FALSE, track |-> <<>>]

\* The array of lines 299-302: num_tracks zeroed entries.
ZeroedTrackOption(num_tracks) ==
    [ alloc |-> TRUE,
      track |-> [j \in 1..num_tracks |->
                    [ raw_track_option |-> NULL,
                      alternate_group  |-> 0,
                      ISO_language     |-> lsmash_pack_iso_language(NULL) ]] ]

\* Lines 318-324: the parameters of the input tracks.
CurrentParameters(in, topt) ==
    [i \in 1..Len(in) |->
        [topt[i] EXCEPT !.track =
            [j \in 1..in[i].num_tracks |->
                [ topt[i].track[j] EXCEPT
                    !.alternate_group = in[i].track[j].alternate_group,
                    !.ISO_language    = in[i].track[j].ISO_language ]]]]

\* Lines 326-336, the check of line 328 passed: the first
\* num_track_delimiter tokens of whole_track_option are the raw options of
\* the tracks 1, 2, ... of the source.
RawTrackOptions(topt, input_file_option) ==
    [i \in 1..Len(topt) |->
        IF i > Len(input_file_option) THEN topt[i]
        ELSE LET n   == input_file_option[i].num_track_delimiter
                 raw == Tokens(input_file_option[i].whole_track_option, 1, {"?"}, n)
             IN  [topt[i] EXCEPT !.track =
                     [j \in DOMAIN topt[i].track |->
                         IF j <= n THEN [topt[i].track[j] EXCEPT !.raw_track_option = raw[j]]
                         ELSE topt[i].track[j]]]]

SegmentTrack(track_number, segment) == segment

FreedTrackOptionNotCleared(option) == option

\* Lines 419-420: the array is freed and io.track_option[i] set to NULL.
FreedTrackOption(option) == NoTrackOption

\* track[i][track_number - 1] (lines 265 and 270), in the segment number
\* "segment" of the source.
AddressedTrack(track_number, segment) == track_number

\* The text behind the '=' of an option (strchr( track_option, '=' ) + 1).
TrackParameter(track_option_text) ==
    SubSeq(track_option_text, strchr(track_option_text, "=") + 1, Len(track_option_text))

\* The while loop of lines 258-274: the options of one raw option from the
\* saved position p on; track is track[i], the array of the source.
RECURSIVE ParseOptions(_, _, _, _)
ParseOptions(raw, p, track, to) ==
    LET option == strtok(raw, p, {","})
    IN  IF option.token = NULL THEN [error |-> "", track |-> track]
        ELSE IF strchr(option.token, "=") # strrchr(option.token, "=")
        THEN [ error |-> "Error: multiple equal signs inside one track option in %s",
               track |-> track ]
        ELSE IF strstr(option.token, <<"alternate-group", "=">>)
        THEN ParseOptions(raw, option.next,
                 [track EXCEPT ![to].alternate_group = atoi(TrackParameter(option.token))],
                 to)
        ELSE IF strstr(option.token, <<"language", "=">>)
        THEN ParseOptions(raw, option.next,
                 [track EXCEPT ![to].ISO_language =
                     lsmash_pack_iso_language(TrackParameter(option.token))],
                 to)
        ELSE [error |-> "Error: unknown track option %s", track |-> track]

\* Lines 247-274 for one raw option, the segment number "segment" of a
\* source of num_tracks tracks.
ParseRawTrackOption(raw, segment, track, num_tracks) ==
    IF strchr(raw, ":") = 0 \/ strchr(raw, ":") = 1
    THEN [error |-> "Error: track number is not specified in %s", track |-> track]
    ELSE IF strchr(raw, ":") # strrchr(raw, ":")
    THEN [ error |-> "Error: multiple colons inside one track option in %s.",
           track |-> track ]
    ELSE LET number       == strtok(raw, 1, {":"})
             track_number == atoi(number.token)
         IN  IF track_number = 0
             THEN [error |-> "Error: %s is an invalid track number.", track |-> track]
             ELSE IF track_number > num_tracks
             THEN [error |-> "Error: %d is an invalid track number.", track |-> track]
             ELSE ParseOptions(raw, number.next, track,
                               AddressedTrack(track_number, segment))

\* parse_track_option from the source i and the segment j on: error is the
\* message of the ERROR_MSG it returns with, "" when it returns 0.
RECURSIVE parse_track_option(_, _, _, _)
parse_track_option(in, topt, i, j) ==
    IF i > Len(in) THEN [error |-> "", track_option |-> topt]
    ELSE IF j > in[i].num_tracks \/ topt[i].track[j].raw_track_option = NULL
    THEN parse_track_option(in, topt, i + 1, 1)
    ELSE LET r == ParseRawTrackOption(topt[i].track[j].raw_track_option, j,
                                      topt[i].track, in[i].num_tracks)
         IN  IF r.error # "" THEN [ error        |-> r.error,
                                    track_option |-> [topt EXCEPT ![i].track = r.track] ]
             ELSE parse_track_option(in, [topt EXCEPT ![i].track = r.track], i, j + 1)

(***************************************************************************)
(* main, lines 385-422: the tracks of the output movie.                    *)
(***************************************************************************)
\* One output track per input track, the sources in order and the tracks
\* of each in order (the loops of lines 391-421), with the alternate group
\* and the language of track_option (lines 405-406).  lsmash_create_track
\* gives the track IDs 1, 2, ... ; "movie" and "in_track_ID" are the
\* arguments of lsmash_copy_decoder_specific_info.
RECURSIVE CreateTracks(_, _, _, _, _)
CreateTracks(in, topt, i, j, created) ==
    IF i > Len(in) THEN created
    ELSE IF j > in[i].num_tracks THEN CreateTracks(in, topt, i + 1, 1, created)
    ELSE CreateTracks(in, topt, i, j + 1,
             Append(created,
                 [ out_track |->
                     [ track_ID                    |-> Len(created) + 1,
                       last_sample_delta           |-> in[i].track[j].last_sample_delta,
                       current_sample_number       |-> 1,
                       reach_end_of_media_timeline |-> FALSE,
                       alternate_group             |-> topt[i].track[j].alternate_group,
                       ISO_language                |-> topt[i].track[j].ISO_language,
                       timescale                   |-> in[i].track[j].timescale ],
                   movie       |-> i,
                   in_track_ID |-> in[i].track[j].track_ID ]))

\* The movie_t output at "Start muxing" (line 423).
OutputMovie(in, topt) ==
    LET created == CreateTracks(in, topt, 1, 1, <<>>)
    IN  [ root                 |-> TRUE,
          itunes_meta_list     |-> FALSE,
          track_alloc          |-> TRUE,
          num_tracks           |-> SumSeq([i \in 1..Len(in) |-> in[i].num_tracks]),
          current_track_number |-> 1,
          movie_param          |-> set_movie_parameters(in),
          track                |-> [o \in 1..Len(created) |-> created[o].out_track] ]

\* A track of the output file after the calls of lines 398-413, the first
\* "calls" of lsmash_create_track, lsmash_set_track_parameters,
\* lsmash_set_media_parameters and lsmash_copy_decoder_specific_info having
\* succeeded (calls >= 1); what a call did not set is the empty sequence.
FileTrack(c, calls) ==
    [ track_param           |-> IF calls >= 2 THEN <<c.out_track.alternate_group>> ELSE <<>>,
      media_param           |-> IF calls >= 3 THEN <<c.out_track.ISO_language>> ELSE <<>>,
      decoder_specific_info |-> IF calls >= 4 THEN <<c.movie, c.in_track_ID>> ELSE <<>>,
      flushed               |-> <<>>,
      timeline_map          |-> <<>> ]

\* The file behind output.root at "Start muxing": per output track ID what
\* was set and where its decoder specific info came from; no sample
\* appended yet.
OutputFile(in, topt) ==
    LET created == CreateTracks(in, topt, 1, 1, <<>>)
    IN  [ track       |-> [o \in 1..Len(created) |-> FileTrack(created[o], 4)],
          movie_param |-> set_movie_parameters(in),
          samples     |-> <<>>,
          finished    |-> FALSE ]

(***************************************************************************)
(* The resources handed out and given back.  For each pointer of the       *)
(* program heap counts the objects that were acquired through it and the   *)
(* releases (lsmash_destroy_root, lsmash_destroy_itunes_metadata, free);   *)
(* sample lists every sample that                                          *)
(* lsmash_get_sample_from_media_timeline returned, with the number of      *)
(* times lsmash_append_sample took it and lsmash_delete_sample freed it.   *)
(***************************************************************************)
\* A pointer of the program: the objects acquired through it, the releases
\* of them, whether the object it was given last is still held, and the
\* releases of an object that was released before.
Unused == [acquired |-> 0, released |-> 0, held |-> FALSE, released_again |-> 0]

Acquire(c, n) ==
    IF n = 0 THEN c ELSE [c EXCEPT !.acquired = @ + n, !.held = TRUE]

\* free, lsmash_destroy_root or lsmash_destroy_itunes_metadata on the
\* object the pointer holds.
Release(c) ==
    IF c.held THEN [c EXCEPT !.released = @ + 1, !.held = FALSE]
    ELSE [c EXCEPT !.released_again = @ + 1]

\* Nothing acquired yet, for num_input inputs (lines 365-370).
NoHeap(num_input) ==
    [ input  |-> [i \in 1..num_input |->
                     [ root             |-> Unused,
                       track            |-> Unused,
                       itunes_meta_list |-> Unused,
                       track_option     |-> Unused ]],
      output |-> [root |-> Unused, track |-> Unused, itunes_meta_list |-> Unused],
      sample |-> <<>> ]

NoFailure == [at |-> "none", k |-> 0]

\* What get_movie acquired for one input when it returns (h is the input's
\* part of heap): the root of line 122, the array of line 131 and the
\* lists of line 143.
GetMovieHeap(h, num_tracks, failure) ==
    [ h EXCEPT
        !.root             = Acquire(@, IF failure.at \in {"stdin", "open"} THEN 0 ELSE 1),
        !.track            = Acquire(@, IF failure.at \in {"stdin", "open", "alloc"}
                                        THEN 0 ELSE 1),
        !.itunes_meta_list = Acquire(@, ExportedMetadataLists(num_tracks, failure)) ]

(***************************************************************************)
(* cleanup_movie and remuxer_error.                                        *)
(***************************************************************************)
\* cleanup_movie: the metadata list, the track array and the root are
\* released and the three pointers set to NULL.
cleanup_movie(movie) ==
    [movie EXCEPT !.itunes_meta_list = FALSE, !.track_alloc = FALSE, !.root = FALSE]

\* What cleanup_movie releases (h is the movie's part of heap): the list
\* and the array when their pointers are not NULL, and the root
\* (lsmash_destroy_root of a NULL root releases nothing).
Destroyed(h, movie) ==
    [ h EXCEPT
        !.itunes_meta_list = IF movie.itunes_meta_list THEN Release(@) ELSE @,
        !.track            = IF movie.track_alloc THEN Release(@) ELSE @,
        !.root             = IF movie.root THEN Release(@) ELSE @ ]

\* remuxer_error: every input and the output are cleaned up and every
\* io->track_option[i] that is not NULL is freed.
remuxer_error(in, out, topt, h) ==
    [ input  |-> [i \in 1..Len(in) |-> cleanup_movie(in[i])],
      output |-> cleanup_movie(out),
      heap   |-> [ h EXCEPT
                     !.input  = [i \in 1..Len(in) |->
                                    [ Destroyed(h.input[i], in[i]) EXCEPT
                                        !.track_option =
                                            IF topt[i].alloc THEN Release(@) ELSE @ ]],
                     !.output = Destroyed(h.output, out) ] ]

\* return REMUXER_ERR( ... ) in main, with the movies, the options and the
\* heap as they are at the return; messages is what the ERROR_MSG on the
\* way and REMUXER_ERR print.
Abort(in, out, topt, h, messages) ==
    /\ input' = remuxer_error(in, out, topt, h).input
    /\ output' = remuxer_error(in, out, topt, h).output
    /\ heap' = remuxer_error(in, out, topt, h).heap
    /\ track_option' = topt
    /\ stderr' = stderr \o messages
    /\ pc' = "error"

\* return REMUXER_ERR( message ) inside the muxing loop, h being the heap.
Fail(h, message) ==
    /\ Abort(input, output, track_option, h, <<message>>)
    /\ UNCHANGED <<argv, disk, cli, sink, input_movie_number, largest_dts,
                   num_consecutive_sample_skip, num_active_input_tracks,
                   visits_without_transfer>>

(***************************************************************************)
(* The inputs of the model.                                                *)
(***************************************************************************)
\* The non-decreasing sequences of k DTS in lo..hi.
RECURSIVE NonDecreasing(_, _, _)
NonDecreasing(k, lo, hi) ==
    IF k = 0 THEN {<<>>}
    ELSE UNION {{<<d>> \o r : r \in NonDecreasing(k - 1, d, hi)} : d \in lo..hi}

Timelines(max_samples, max_dts) ==
    UNION {NonDecreasing(k, 0, max_dts) : k \in 0..max_samples}

\* A track of a file: its timescale and timeline, no alternate group and
\* an undetermined language.
MediaTrack(timescale, timeline) ==
    [ timescale       |-> timescale,
      timeline        |-> timeline,
      alternate_group |-> 0,
      ISO_language    |-> lsmash_pack_iso_language(<<"und">>) ]

\* The tracks of k samples: a timescale (the smallest or the largest) and
\* a timeline.
TrackMedia(k) ==
    {MediaTrack(ts, tl) : ts \in {1, MaxTimescale}, tl \in NonDecreasing(k, 0, MaxDts)}

\* The sequences of n tracks with at most max_samples samples in all.
RECURSIVE TrackLists(_, _)
TrackLists(n, max_samples) ==
    IF n = 0 THEN {<<>>}
    ELSE UNION {{<<m>> \o r : m \in TrackMedia(k), r \in TrackLists(n - 1, max_samples - k)}
                : k \in 0..max_samples}

\* The number of tracks of each source: every source has at least one
\* track and there are MaxOutputTracks tracks at most in all.
Layouts ==
    {l \in UNION {[1..n -> 1..MaxOutputTracks] : n \in 1..MaxOutputTracks} :
        SumSeq(l) <= MaxOutputTracks}

DefaultBrand == [major_brand |-> 1, minor_version |-> 0, brands |-> <<1>>]

\* The sources of a layout with the tracks of a flat track list.
Movies(layout, tracks) ==
    [i \in 1..Len(layout) |->
        get_movie(SubSeq(tracks, SumSeq(SubSeq(layout, 1, i - 1)) + 1,
                                 SumSeq(SubSeq(layout, 1, i))),
                  DefaultBrand)]

NoVisits(in) ==
    [i \in 1..Len(in) |-> [j \in 1..in[i].num_tracks |-> [own |-> 0, any |-> 0]]]

\* File names.
InputNames == <<"1.mp4", "2.mp4", "3.mp4", "4.mp4", "5.mp4">>

\* The file that get_movie read the movie from.
FileOf(movie_t) ==
    [ track       |-> [j \in 1..movie_t.num_tracks |->
                         [ timescale       |-> movie_t.track[j].timescale,
                           timeline        |-> movie_t.timeline[j],
                           alternate_group |-> movie_t.track[j].alternate_group,
                           ISO_language    |-> movie_t.track[j].ISO_language ]],
      movie_param |-> movie_t.movie_param ]

\* The command line  -i 1.mp4 -i 2.mp4 ... -o out.mp4  with n inputs.
RECURSIVE PlainInputs(_)
PlainInputs(n) ==
    IF n = 0 THEN <<>> ELSE PlainInputs(n - 1) \o << <<"-i">>, <<InputNames[n]>> >>

PlainCommandLine(n) == PlainInputs(n) \o << <<"-o">>, <<"out.mp4">> >>

\* main at line 376 when that command line was parsed and its files gave
\* the movies in: what is on the disk, what parse_cli_option leaves, and
\* what was acquired.
Parsed(in) ==
    /\ argv = PlainCommandLine(Len(in))
    /\ disk = [name \in {<<InputNames[i]>> : i \in 1..Len(in)} |->
                  FileOf(in[CHOOSE i \in 1..Len(in) : <<InputNames[i]>> = name])]
    /\ cli = [ i                  |-> Len(PlainCommandLine(Len(in))) + 1,
               input_movie_number |-> Len(in),
               input_file_option  |-> [i \in 1..Len(in) |->
                                          [ whole_track_option  |-> NULL,
                                            num_track_delimiter |-> 0 ]] ]
    /\ stderr = <<>>

\* The options of the tracks when no track option was given.
ParsedTrackOptions(in) ==
    CurrentParameters(in, [i \in 1..Len(in) |-> ZeroedTrackOption(in[i].num_tracks)])

ParsedHeap(in) ==
    [ NoHeap(Len(in)) EXCEPT
        !.input       = [i \in 1..Len(in) |->
                            [ GetMovieHeap(@[i], in[i].num_tracks, NoFailure) EXCEPT
                                !.track_option = Acquire(@, 1) ]],
        !.output.root = Acquire(@, 1) ]

\* The heap when the output tracks are allocated (line 387) and the
\* track_option[i] of the first n sources are freed (line 419; free of a
\* NULL pointer releases nothing).  At "Start muxing" n is num_input.
MappedHeap(h, topt, n) ==
    [ h EXCEPT
        !.input        = [i \in DOMAIN h.input |->
                             [ h.input[i] EXCEPT
                                 !.track_option =
                                     IF i <= n /\ topt[i].alloc THEN Release(@) ELSE @ ]],
        !.output.track = Acquire(@, 1) ]

\* main at "Start muxing" (lines 423-429) with the sources in.
StartMuxing(in) ==
    /\ Parsed(in)
    /\ track_option = [i \in 1..Len(in) |-> FreedTrackOption(ParsedTrackOptions(in)[i])]
    /\ heap = MappedHeap(ParsedHeap(in), ParsedTrackOptions(in), Len(in))
    /\ input = in
    /\ output = OutputMovie(in, ParsedTrackOptions(in))
    /\ sink = OutputFile(in, ParsedTrackOptions(in))
    /\ input_movie_number = 1
    /\ largest_dts = Seconds(0, 1)
    /\ num_consecutive_sample_skip = 0
    /\ num_active_input_tracks = OutputMovie(in, ParsedTrackOptions(in)).num_tracks
    /\ visits_without_transfer = NoVisits(in)
    /\ pc = "muxing"

\* Any layout of sources and tracks with MaxTotalSamples samples at most.
GeneralInit ==
    \E l \in Layouts : \E t \in TrackLists(SumSeq(l), MaxTotalSamples) :
        StartMuxing(Movies(l, t))

\* Two sources of one track each with equal timescales (the scenario of
\* spec section 8, with every timeline of up to ScenMaxSamples samples).
ScenarioInit ==
    \E ts \in 1..MaxTimescale :
        \E a \in Timelines(ScenMaxSamples, ScenMaxDts) :
            \E b \in Timelines(ScenMaxSamples, ScenMaxDts) :
                StartMuxing(Movies(<<1, 1>>, <<MediaTrack(ts, a), MediaTrack(ts, b)>>))

Init == GeneralInit \/ ScenarioInit

(***************************************************************************)
(* main, lines 430-494: the muxing loop.  One action is one iteration,     *)
(* by what the iteration does.                                             *)
(***************************************************************************)
\* Lines 432-433 and 437.
movie == input[input_movie_number]
in_track == movie.track[movie.current_track_number]
out_track == output.track[output.current_track_number]

SampleExistsBeforeLast ==
    in_track.current_sample_number < Len(movie.timeline[in_track.track_ID])

\* lsmash_check_sample_existence_in_media_timeline on the current sample.
SampleExists ==
    in_track.current_sample_number <= Len(movie.timeline[in_track.track_ID])

\* What lsmash_get_dts_from_media_timeline stores in dts.
CurrentDts == movie.timeline[in_track.track_ID][in_track.current_sample_number]

NextOutputTrackEarlyWrap(out) ==
    IF out.current_track_number + 1 >= out.num_tracks THEN 1
    ELSE out.current_track_number + 1

\* Lines 483 and 492-493.
NextOutputTrack(out) ==
    IF out.current_track_number + 1 > out.num_tracks THEN 1
    ELSE out.current_track_number + 1

\* "Move the next track", lines 482-493, on the movies in and out and the
\* input_movie_number n.
MoveNextTrack(in, out, n) ==
    LET next == in[n].current_track_number + 1
        wrap == next > in[n].num_tracks
        n1   == IF wrap THEN n + 1 ELSE n
    IN  [ input  |-> [in EXCEPT ![n].current_track_number = IF wrap THEN 1 ELSE next],
          input_movie_number |-> IF n1 > Len(in) THEN 1 ELSE n1,
          output |-> [out EXCEPT !.current_track_number = NextOutputTrack(out)] ]

\* Line 435 false: the track has reached its end already.
VisitFinishedTrack ==
    /\ pc = "muxing"
    /\ in_track.reach_end_of_media_timeline
    /\ LET m == MoveNextTrack(input, output, input_movie_number)
       IN  /\ input' = m.input
           /\ output' = m.output
           /\ input_movie_number' = m.input_movie_number
    /\ UNCHANGED <<argv, disk, cli, track_option, heap, stderr>>
    /\ UNCHANGED <<sink, largest_dts, num_consecutive_sample_skip,
                   num_active_input_tracks, visits_without_transfer, pc>>

EndOfMuxingWithOneLeft(active) == active - 1 <= 1

NotDecremented(active) == active

\* --num_active_input_tracks (line 450).
Decremented(active) == active - 1

EndOfMuxingPostDecrement(active) == active = 0

\* if( --num_active_input_tracks == 0 ) break;, on the count before it.
EndOfMuxing(active) == active - 1 = 0

\* Lines 443-452: no DTS and no sample at the cursor; the track is marked
\* and, when it was the last active one, the loop is left (break).
ReachEnd ==
    /\ pc = "muxing"
    /\ ~in_track.reach_end_of_media_timeline
    /\ ~SampleExists
    /\ LET marked == [input EXCEPT ![input_movie_number]
                         .track[movie.current_track_number]
                         .reach_end_of_media_timeline = TRUE]
           m == MoveNextTrack(marked, output, input_movie_number)
       IN  /\ num_active_input_tracks' = Decremented(num_active_input_tracks)
           /\ IF EndOfMuxing(num_active_input_tracks)
              THEN /\ input' = marked
                   /\ pc' = "flush"
                   /\ UNCHANGED <<output, input_movie_number>>
              ELSE /\ input' = m.input
                   /\ output' = m.output
                   /\ input_movie_number' = m.input_movie_number
                   /\ UNCHANGED pc
    /\ UNCHANGED <<argv, disk, cli, track_option, heap, stderr>>
    /\ UNCHANGED <<sink, largest_dts, num_consecutive_sample_skip, visits_without_transfer>>

\* Lines 443-446: lsmash_get_dts_from_media_timeline fails although the
\* sample exists.
DtsError ==
    /\ pc = "muxing"
    /\ ~in_track.reach_end_of_media_timeline
    /\ SampleExists
    /\ Fail(heap, "Failed to get the DTS.")

GoodTimeNoEscape ==
    SecondsLeq(Seconds(CurrentDts, in_track.timescale), largest_dts)

GoodTimeRawTicks ==
    \/ CurrentDts <= largest_dts[1]
    \/ num_consecutive_sample_skip = num_active_input_tracks

GoodTimeLate ==
    \/ SecondsLeq(Seconds(CurrentDts, in_track.timescale), largest_dts)
    \/ num_consecutive_sample_skip = num_active_input_tracks + 1

\* Lines 455-456: "if it's good time".
GoodTime ==
    \/ SecondsLeq(Seconds(CurrentDts, in_track.timescale), largest_dts)
    \/ num_consecutive_sample_skip = num_active_input_tracks

\* What lsmash_append_sample adds to the output file.
AppendedSample ==
    [ track_ID      |-> out_track.track_ID,
      movie         |-> input_movie_number,
      in_track_ID   |-> in_track.track_ID,
      sample_number |-> in_track.current_sample_number,
      dts           |-> CurrentDts,
      timescale     |-> in_track.timescale ]

\* The sample that lsmash_get_sample_from_media_timeline returns.
Sample ==
    [ movie         |-> input_movie_number,
      in_track_ID   |-> in_track.track_ID,
      sample_number |-> in_track.current_sample_number ]

\* Lines 459-464, the append succeeding: the sample was got and
\* lsmash_append_sample took it.
SampleAppended(h) ==
    [h EXCEPT !.sample = Append(@, [sample |-> Sample, appended |-> 1, deleted |-> 0])]

SampleLeftBehind(h) ==
    [h EXCEPT !.sample = Append(@, [sample |-> Sample, appended |-> 0, deleted |-> 0])]

\* Lines 459-466, the append failing: the sample was got, not taken, and
\* lsmash_delete_sample freed it.
SampleDeleted(h) ==
    [h EXCEPT !.sample = Append(@, [sample |-> Sample, appended |-> 0, deleted |-> 1])]

SkipSample(in, i, j) ==
    [in EXCEPT ![i].track[j].current_sample_number = @ + 2]

\* ++ in_track->current_sample_number; on track j of source i.
AdvanceSample(in, i, j) ==
    [in EXCEPT ![i].track[j].current_sample_number = @ + 1]

\* Lines 455-477 with the sample got and appended, then lines 482-493.
Transfer ==
    /\ pc = "muxing"
    /\ ~in_track.reach_end_of_media_timeline
    /\ SampleExists
    /\ GoodTime
    /\ sink' = [sink EXCEPT !.samples = Append(@, AppendedSample)]
    /\ largest_dts' = LSMASH_MAX(largest_dts, Seconds(CurrentDts, in_track.timescale))
    /\ num_consecutive_sample_skip' = 0
    /\ LET i == input_movie_number
           j == movie.current_track_number
           o == output.current_track_number
           m == MoveNextTrack(
                    AdvanceSample(input, i, j),
                    [output EXCEPT !.track[o].current_sample_number = @ + 1], i)
       IN  /\ input' = m.input
           /\ output' = m.output
           /\ input_movie_number' = m.input_movie_number
           /\ visits_without_transfer' =
                  [a \in DOMAIN visits_without_transfer |->
                      [b \in DOMAIN visits_without_transfer[a] |->
                          [ own |-> IF a = i /\ b = j THEN 0
                                    ELSE visits_without_transfer[a][b].own,
                            any |-> 0 ]]]
    /\ heap' = SampleAppended(heap)
    /\ UNCHANGED <<argv, disk, cli, track_option, stderr>>
    /\ UNCHANGED <<num_active_input_tracks, pc>>

\* Lines 459-461: lsmash_get_sample_from_media_timeline returns NULL.
GetSampleError ==
    /\ pc = "muxing"
    /\ ~in_track.reach_end_of_media_timeline
    /\ SampleExists
    /\ GoodTime
    /\ Fail(heap, "Failed to get sample.")

\* Lines 464-468: lsmash_append_sample fails; the sample is deleted.
AppendError ==
    /\ pc = "muxing"
    /\ ~in_track.reach_end_of_media_timeline
    /\ SampleExists
    /\ GoodTime
    /\ Fail(SampleDeleted(heap), "Failed to append a sample.")

\* Lines 478-479, then lines 482-493.
Skip ==
    /\ pc = "muxing"
    /\ ~in_track.reach_end_of_media_timeline
    /\ SampleExists
    /\ ~GoodTime
    /\ num_consecutive_sample_skip' = num_consecutive_sample_skip + 1
    /\ LET i == input_movie_number
           j == movie.current_track_number
           m == MoveNextTrack(input, output, i)
       IN  /\ input' = m.input
           /\ output' = m.output
           /\ input_movie_number' = m.input_movie_number
           /\ visits_without_transfer' =
                  [visits_without_transfer EXCEPT ![i][j] =
                      [own |-> @.own + 1, any |-> @.any + 1]]
    /\ UNCHANGED <<argv, disk, cli, track_option, heap, stderr>>
    /\ UNCHANGED <<sink, largest_dts, num_active_input_tracks, pc>>

(***************************************************************************)
(* main, lines 495-519: flush, timeline maps, finish.                      *)
(***************************************************************************)
\* The output file after lsmash_flush_pooled_samples on the first k tracks
\* of output.track (lines 495-497).
Flushed(k) ==
    [sink EXCEPT !.track =
        [o \in DOMAIN sink.track |->
            IF \E t \in 1..k : output.track[t].track_ID = o
            THEN [sink.track[o] EXCEPT !.flushed =
                     <<output.track[CHOOSE t \in 1..k : output.track[t].track_ID = o]
                           .last_sample_delta>>]
            ELSE sink.track[o]]]

FlushPooledSamples ==
    /\ pc = "flush"
    /\ sink' = Flushed(output.num_tracks)
    /\ pc' = "copy_timeline_map"
    /\ UNCHANGED <<argv, disk, cli, track_option, heap, stderr>>
    /\ UNCHANGED <<input, output, input_movie_number, largest_dts,
                   num_consecutive_sample_skip, num_active_input_tracks,
                   visits_without_transfer>>

\* The flush of track k fails after the tracks before it were flushed.
FlushError ==
    /\ pc = "flush"
    /\ \E k \in 1..output.num_tracks :
           /\ sink' = Flushed(k - 1)
           /\ Abort(input, output, track_option, heap, <<"Failed to flush samples.">>)
    /\ UNCHANGED <<argv, disk, cli, input_movie_number, largest_dts, num_consecutive_sample_skip,
                   num_active_input_tracks, visits_without_transfer>>

\* The calls of lsmash_copy_timeline_map in the order of the loops of
\* lines 500-506: the output track number, the source and its track ID.
RECURSIVE TimelineMapCopies(_, _, _, _)
TimelineMapCopies(in, i, j, copies) ==
    IF i > Len(in) THEN copies
    ELSE IF j > in[i].num_tracks THEN TimelineMapCopies(in, i + 1, 1, copies)
    ELSE TimelineMapCopies(in, i, j + 1,
             Append(copies, [ current_track_number |-> Len(copies) + 1,
                              movie                |-> i,
                              in_track_ID          |-> in[i].track[j].track_ID ]))

\* The output file after the first k of these calls.
TimelineMapsCopied(k) ==
    LET copies == TimelineMapCopies(input, 1, 1, <<>>)
        to(o)  == {c \in 1..k : output.track[copies[c].current_track_number].track_ID = o}
    IN  [sink EXCEPT !.track =
            [o \in DOMAIN sink.track |->
                IF to(o) # {}
                THEN LET c == copies[CHOOSE c \in to(o) : \A d \in to(o) : d <= c]
                     IN  [sink.track[o] EXCEPT !.timeline_map = <<c.movie, c.in_track_ID>>]
                ELSE sink.track[o]]]

CopyTimelineMaps ==
    /\ pc = "copy_timeline_map"
    /\ sink' = TimelineMapsCopied(output.num_tracks)
    /\ output' = [output EXCEPT !.current_track_number = output.num_tracks + 1]
    /\ pc' = "finish"
    /\ UNCHANGED <<argv, disk, cli, track_option, heap, stderr>>
    /\ UNCHANGED <<input, input_movie_number, largest_dts, num_consecutive_sample_skip,
                   num_active_input_tracks, visits_without_transfer>>

\* The copy number k fails after the copies before it.
CopyTimelineMapError ==
    /\ pc = "copy_timeline_map"
    /\ \E k \in 1..output.num_tracks :
           /\ sink' = TimelineMapsCopied(k - 1)
           /\ Abort(input, [output EXCEPT !.current_track_number = k + 1], track_option,
                    heap, <<"Failed to copy a timeline map.">>)
    /\ UNCHANGED <<argv, disk, cli, input_movie_number, largest_dts, num_consecutive_sample_skip,
                   num_active_input_tracks, visits_without_transfer>>

\* Lines 513-519: lsmash_finish_movie, then every movie is cleaned up.
FinishMovie ==
    /\ pc = "finish"
    /\ sink' = [sink EXCEPT !.finished = TRUE]
    /\ input' = [i \in 1..Len(input) |-> cleanup_movie(input[i])]
    /\ output' = cleanup_movie(output)
    /\ heap' = [ heap EXCEPT
                   !.input  = [i \in 1..Len(input) |-> Destroyed(heap.input[i], input[i])],
                   !.output = Destroyed(heap.output, output) ]
    /\ stderr' = Append(stderr, "Remuxing completed!")
    /\ pc' = "done"
    /\ UNCHANGED <<argv, disk, cli, track_option, input_movie_number, largest_dts, num_consecutive_sample_skip,
                   num_active_input_tracks, visits_without_transfer>>

FinishError ==
    /\ pc = "finish"
    /\ Abort(input, output, track_option, heap, <<"Failed to finish output movie.">>)
    /\ UNCHANGED <<argv, disk, cli, sink, input_movie_number, largest_dts, num_consecutive_sample_skip,
                   num_active_input_tracks, visits_without_transfer>>

(***************************************************************************)
(* The specification of main from "Start muxing" on.                       *)
(***************************************************************************)
Next ==
    \/ VisitFinishedTrack
    \/ ReachEnd
    \/ DtsError
    \/ Transfer
    \/ GetSampleError
    \/ AppendError
    \/ Skip
    \/ FlushPooledSamples
    \/ FlushError
    \/ CopyTimelineMaps
    \/ CopyTimelineMapError
    \/ FinishMovie
    \/ FinishError

Spec == Init /\ [][Next]_vars

\* The muxing loop with no external operation failing; the loop runs on
\* by itself, so a step that can be taken is taken.
MuxingNext ==
    \/ VisitFinishedTrack
    \/ ReachEnd
    \/ Transfer
    \/ Skip

MuxingSpec == Init /\ [][MuxingNext]_vars /\ WF_vars(MuxingNext)

(***************************************************************************)
(* main, lines 376-379: set_movie_parameters on the opened inputs.         *)
(***************************************************************************)
\* movie_t output = { 0 } (line 365).
NoOutput ==
    [ root                 |-> FALSE,
      itunes_meta_list     |-> FALSE,
      track_alloc          |-> FALSE,
      num_tracks           |-> 0,
      current_track_number |-> 0,
      movie_param          |-> NoMovieParameters,
      track                |-> <<>> ]

\* The output file with nothing set, no track and no sample.
NoFile ==
    [ track       |-> <<>>,
      movie_param |-> NoMovieParameters,
      samples     |-> <<>>,
      finished    |-> FALSE ]

\* The lists of n brand lists with max_brands brands at most in all; a
\* brand is 1..MaxBrand, or 0.
RECURSIVE BrandLists(_, _)
BrandLists(n, max_brands) ==
    IF n = 0 THEN {<<>>}
    ELSE UNION {{<<b>> \o r : b \in [1..k -> 0..MaxBrand],
                              r \in BrandLists(n - 1, max_brands - k)}
                : k \in 0..max_brands}

\* An input of one track and no sample with the given ftyp data.
BrandedMovie(major_brand, minor_version, brands) ==
    get_movie(<<MediaTrack(1, <<>>)>>,
              [ major_brand   |-> major_brand,
                minor_version |-> minor_version,
                brands        |-> brands ])

\* main at line 376: the inputs are opened, the output is opened and has
\* no track yet; the variables of the muxing loop have their first values.
BeforeMovieParameters(in) ==
    /\ Parsed(in)
    /\ track_option = ParsedTrackOptions(in)
    /\ heap = ParsedHeap(in)
    /\ input = in
    /\ output = [NoOutput EXCEPT !.root = TRUE]
    /\ sink = NoFile
    /\ input_movie_number = 1
    /\ largest_dts = Seconds(0, 1)
    /\ num_consecutive_sample_skip = 0
    /\ num_active_input_tracks = 0
    /\ visits_without_transfer = NoVisits(in)
    /\ pc = "set_movie_parameters"

\* Every sequence of 1..MaxBrandInput (major_brand, minor_version) pairs.
MajorBrandInit ==
    \E n \in 1..MaxBrandInput :
        \E major \in [1..n -> 1..MaxBrand] : \E minor \in [1..n -> 0..MaxMinorVersion] :
            BeforeMovieParameters(
                [i \in 1..n |-> BrandedMovie(major[i], minor[i], <<major[i]>>)])

\* Every sequence of 1..MaxBrandInput brand lists, MaxTotalBrands brands
\* at most in all.
CompatibleBrandInit ==
    \E n \in 1..MaxBrandInput : \E lists \in BrandLists(n, MaxTotalBrands) :
        BeforeMovieParameters([i \in 1..n |-> BrandedMovie(1, 0, lists[i])])

BrandInit == MajorBrandInit \/ CompatibleBrandInit

\* set_movie_parameters returns 0: the parameters are in output.movie_param
\* and in the output file.
SetMovieParameters ==
    /\ pc = "set_movie_parameters"
    /\ output.root
    /\ output' = [output EXCEPT !.movie_param = set_movie_parameters(input)]
    /\ sink' = [sink EXCEPT !.movie_param = set_movie_parameters(input)]
    /\ pc' = "import_metadata"
    /\ UNCHANGED <<argv, disk, cli, track_option, heap, stderr>>
    /\ UNCHANGED <<input, input_movie_number, largest_dts, num_consecutive_sample_skip,
                   num_active_input_tracks, visits_without_transfer>>

\* lsmash_set_movie_parameters fails (line 229), then line 379.
SetMovieParametersError ==
    /\ pc = "set_movie_parameters"
    /\ output.root
    /\ Abort(input, [output EXCEPT !.movie_param = set_movie_parameters(input)],
             track_option, heap, <<"Failed to set output movie parameters.">>)
    /\ UNCHANGED <<argv, disk, cli, sink, input_movie_number, largest_dts, num_consecutive_sample_skip,
                   num_active_input_tracks, visits_without_transfer>>

BrandNext ==
    \/ SetMovieParameters
    \/ SetMovieParametersError

BrandSpec == BrandInit /\ [][BrandNext]_vars

(***************************************************************************)
(* main, lines 354-377, with parse_cli_option: the command line.           *)
(***************************************************************************)
\* Lines 361-364: the number of "-i" among the arguments.
RECURSIVE num_input(_)
num_input(args) ==
    IF args = <<>> THEN 0
    ELSE (IF IsInputOption(Head(args)) THEN 1 ELSE 0) + num_input(Tail(args))

\* main at its start with the arguments args (argv[1], argv[2], ...) and
\* the files of the disk; the arrays of lines 365-370 are zeroed.
StartMain(args, files) ==
    /\ argv = args
    /\ disk = files
    /\ cli = [i |-> 1, input_movie_number |-> 0, input_file_option |-> <<>>]
    /\ track_option = [i \in 1..num_input(args) |-> NoTrackOption]
    /\ heap = NoHeap(num_input(args))
    /\ stderr = <<>>
    /\ input = [i \in 1..num_input(args) |-> NoMovie]
    /\ output = NoOutput
    /\ sink = NoFile
    /\ input_movie_number = 1
    /\ largest_dts = Seconds(0, 1)
    /\ num_consecutive_sample_skip = 0
    /\ num_active_input_tracks = 0
    /\ visits_without_transfer = [i \in 1..num_input(args) |-> <<>>]
    /\ pc = "main"

\* Line 356, argc being Len(argv) + 1.
HelpWanted ==
    IF Len(argv) + 1 < 5 THEN TRUE ELSE argv[1] \in {<<"-h">>, <<"--help">>}

\* What no step of the command line changes.
MuxingUnchanged ==
    UNCHANGED <<argv, disk, sink, input_movie_number, largest_dts,
                num_consecutive_sample_skip, num_active_input_tracks,
                visits_without_transfer>>

\* Lines 356-360.
DisplayHelp ==
    /\ pc = "main"
    /\ HelpWanted
    /\ stderr' = Append(stderr, "Usage: remuxer -i input1 [-i input2 -i input3 ...] -o output")
    /\ pc' = "exit"
    /\ UNCHANGED <<cli, track_option, heap, input, output>>
    /\ MuxingUnchanged

\* Lines 371-372.
NoInputFile ==
    /\ pc = "main"
    /\ ~HelpWanted
    /\ num_input(argv) = 0
    /\ Abort(input, output, track_option, heap, <<"No input file specified.">>)
    /\ UNCHANGED cli
    /\ MuxingUnchanged

\* Line 374: parse_cli_option is called.
CallParseCliOption ==
    /\ pc = "main"
    /\ ~HelpWanted
    /\ num_input(argv) > 0
    /\ pc' = "parse_cli_option"
    /\ UNCHANGED <<cli, track_option, heap, stderr, input, output>>
    /\ MuxingUnchanged

\* The loop of lines 285-315 is at argv[cli.i].
AtArgument == pc = "parse_cli_option" /\ cli.i <= Len(argv)

\* The name of the file in the argument behind -i (line 296) and the file.
InputName == strtok(argv[cli.i + 1], 1, {"?"}).token

InputFile == disk[InputName]

\* Lines 292-295 and 303: the '?' of the argument are counted; the text
\* behind the first of them is the whole track option (NULL when there is
\* none).
InputFileOption ==
    [ whole_track_option  |->
          strtok(argv[cli.i + 1], strtok(argv[cli.i + 1], 1, {"?"}).next, {}).token,
      num_track_delimiter |->
          Cardinality({k \in 1..Len(argv[cli.i + 1]) : argv[cli.i + 1][k] = "?"}) ]

\* return ERROR_MSG( ... ) in parse_cli_option, then line 375.
ParseCliOptionError(in, topt, h, messages) ==
    /\ Abort(in, output, topt, h, messages \o <<"Failed to parse command line options.">>)
    /\ UNCHANGED cli
    /\ MuxingUnchanged

\* Lines 288-305: get_movie returns 0 and the options of the tracks are
\* allocated.
GetInputMovie ==
    /\ AtArgument
    /\ IsInputOption(argv[cli.i])
    /\ cli.i + 1 <= Len(argv)
    /\ InputName \in DOMAIN disk
    /\ LET k == cli.input_movie_number + 1
       IN  /\ input' = [input EXCEPT ![k] = get_movie(InputFile.track, InputFile.movie_param)]
           /\ track_option' = [track_option EXCEPT
                                  ![k] = ZeroedTrackOption(Len(InputFile.track))]
           /\ heap' = [heap EXCEPT !.input[k] =
                          [ GetMovieHeap(@, Len(InputFile.track), NoFailure) EXCEPT
                              !.track_option = Acquire(@, 1) ]]
           /\ cli' = [ i                  |-> cli.i + 2,
                       input_movie_number |-> k,
                       input_file_option  |-> Append(cli.input_file_option, InputFileOption) ]
    /\ UNCHANGED <<stderr, output, pc>>
    /\ MuxingUnchanged

\* Lines 290-291.
InputArgumentMissing ==
    /\ AtArgument
    /\ IsInputOption(argv[cli.i])
    /\ cli.i + 1 > Len(argv)
    /\ ParseCliOptionError(input, track_option, heap, <<"Error: -i requires an argument.">>)

\* Lines 296-297: get_movie returns an error.
GetInputMovieError ==
    /\ AtArgument
    /\ IsInputOption(argv[cli.i])
    /\ cli.i + 1 <= Len(argv)
    /\ LET k      == cli.input_movie_number + 1
           exists == InputName \in DOMAIN disk
           n      == IF exists THEN Len(InputFile.track) ELSE 0
       IN  \E failure \in GetMovieFailures(InputName, exists, n) :
               ParseCliOptionError(
                   [input EXCEPT ![k] =
                       IF failure.at \in {"stdin", "open"} THEN @
                       ELSE get_movie_error(InputFile.track, InputFile.movie_param, failure)],
                   track_option,
                   [heap EXCEPT !.input[k] = GetMovieHeap(@, n, failure)],
                   <<GetMovieMessage(failure), "Failed to get input movie.">>)

\* Lines 299-301: the options of the tracks are not allocated.
TrackOptionAllocError ==
    /\ AtArgument
    /\ IsInputOption(argv[cli.i])
    /\ cli.i + 1 <= Len(argv)
    /\ InputName \in DOMAIN disk
    /\ LET k == cli.input_movie_number + 1
       IN  ParseCliOptionError(
               [input EXCEPT ![k] = get_movie(InputFile.track, InputFile.movie_param)],
               track_option,
               [heap EXCEPT !.input[k] = GetMovieHeap(@, Len(InputFile.track), NoFailure)],
               <<"Error: couldn't allocate memory.">>)

\* Lines 307-312: the output movie is opened; the root that output.root
\* held before is not looked at.
OpenOutputMovie ==
    /\ AtArgument
    /\ IsOutputOption(argv[cli.i])
    /\ cli.i + 1 <= Len(argv)
    /\ output' = [output EXCEPT !.root = TRUE]
    /\ heap' = [heap EXCEPT !.output.root = Acquire(@, 1)]
    /\ cli' = [cli EXCEPT !.i = @ + 2]
    /\ UNCHANGED <<track_option, stderr, input, pc>>
    /\ MuxingUnchanged

\* Lines 307-312: lsmash_open_movie returns NULL.
OpenOutputMovieFails ==
    /\ AtArgument
    /\ IsOutputOption(argv[cli.i])
    /\ cli.i + 1 <= Len(argv)
    /\ output' = [output EXCEPT !.root = FALSE]
    /\ cli' = [cli EXCEPT !.i = @ + 2]
    /\ UNCHANGED <<track_option, heap, stderr, input, pc>>
    /\ MuxingUnchanged

\* Lines 309-310.
OutputArgumentMissing ==
    /\ AtArgument
    /\ IsOutputOption(argv[cli.i])
    /\ cli.i + 1 > Len(argv)
    /\ ParseCliOptionError(input, track_option, heap, <<"Error: -o requires an argument.">>)

\* Lines 313-314.
UnknownOption ==
    /\ AtArgument
    /\ ~IsInputOption(argv[cli.i])
    /\ ~IsOutputOption(argv[cli.i])
    /\ ParseCliOptionError(input, track_option, heap, <<"Unkown option found: %s">>)

\* The loop of lines 285-315 is over.
AtTrackOptions == pc = "parse_cli_option" /\ cli.i > Len(argv)

\* The sources with more '?' than tracks (line 328).
TooManyOptions ==
    {i \in 1..Len(cli.input_file_option) :
        cli.input_file_option[i].num_track_delimiter > input[i].num_tracks}

\* track_option when parse_track_option is called (lines 318-336).
TrackOptionsToParse ==
    RawTrackOptions(CurrentParameters(input, track_option), cli.input_file_option)

\* Lines 328-329: the first source with too many '?'; the raw options of
\* the sources before it are set.
TooManyTrackOptions ==
    /\ AtTrackOptions
    /\ TooManyOptions # {}
    /\ LET i == CHOOSE i \in TooManyOptions : \A k \in TooManyOptions : i <= k
       IN  ParseCliOptionError(
               input,
               RawTrackOptions(CurrentParameters(input, track_option),
                               SubSeq(cli.input_file_option, 1, i - 1)),
               heap,
               <<"More track options specified than the actual number of the tracks (%u).">>)

\* Lines 337-338: parse_track_option returns an error.
ParseTrackOptionError ==
    /\ AtTrackOptions
    /\ TooManyOptions = {}
    /\ LET r == parse_track_option(input, TrackOptionsToParse, 1, 1)
       IN  /\ r.error # ""
           /\ ParseCliOptionError(input, r.track_option, heap,
                                  <<r.error, "Failed to parse track options.">>)

\* Lines 316-339: parse_cli_option returns 0.
ParseTrackOptions ==
    /\ AtTrackOptions
    /\ TooManyOptions = {}
    /\ LET r == parse_track_option(input, TrackOptionsToParse, 1, 1)
       IN  /\ r.error = ""
           /\ track_option' = r.track_option
    /\ pc' = "set_movie_parameters"
    /\ UNCHANGED <<cli, heap, stderr, input, output>>
    /\ MuxingUnchanged

\* Lines 376-377.
OutputNotOpened ==
    /\ pc = "set_movie_parameters"
    /\ ~output.root
    /\ Abort(input, output, track_option, heap, <<"Failed to open output movie.">>)
    /\ UNCHANGED cli
    /\ MuxingUnchanged

(***************************************************************************)
(* main, lines 380-422: the metadata and the tracks of the output.         *)
(***************************************************************************)
\* Lines 381-383, every import succeeding.
ImportMetadata ==
    /\ pc = "import_metadata"
    /\ pc' = "create_tracks"
    /\ UNCHANGED <<cli, track_option, heap, stderr, input, output>>
    /\ MuxingUnchanged

\* Lines 381-383: an import fails.
ImportMetadataError ==
    /\ pc = "import_metadata"
    /\ Abort(input, output, track_option, heap, <<"Failed to set iTunes metadata.">>)
    /\ UNCHANGED cli
    /\ MuxingUnchanged

\* Lines 385-389: the track array of the output is not allocated.
OutputTracksAllocError ==
    /\ pc = "create_tracks"
    /\ Abort(input,
             [output EXCEPT !.num_tracks = SumSeq([i \in 1..Len(input) |-> input[i].num_tracks])],
             track_option, heap, <<"Failed to alloc output tracks.">>)
    /\ UNCHANGED cli
    /\ MuxingUnchanged

\* Lines 385-429: every track is created; main reaches "Start muxing".
CreateOutputTracks ==
    /\ pc = "create_tracks"
    /\ output' = OutputMovie(input, track_option)
    /\ sink' = [sink EXCEPT !.track = OutputFile(input, track_option).track]
    /\ track_option' = [i \in 1..Len(input) |-> FreedTrackOption(track_option[i])]
    /\ heap' = MappedHeap(heap, track_option, Len(input))
    /\ input_movie_number' = 1
    /\ largest_dts' = Seconds(0, 1)
    /\ num_consecutive_sample_skip' = 0
    /\ num_active_input_tracks' = OutputMovie(input, track_option).num_tracks
    /\ visits_without_transfer' = NoVisits(input)
    /\ pc' = "muxing"
    /\ UNCHANGED <<argv, disk, cli, stderr, input>>

\* The messages of lines 400, 409, 411 and 413, by the number of calls on
\* the track that succeeded.
CreateTrackMessage(calls) ==
    CASE calls = 0 -> "Failed to create a track."
      [] calls = 1 -> "Failed to set track parameters."
      [] calls = 2 -> "Failed to set media parameters."
      [] calls = 3 -> "Failed to copy a Decoder Specific Info."

\* Lines 391-421: for the track j of the source i one of the four calls
\* fails after "calls" of them.  The tracks before it are in the file, the
\* options of the sources before i are freed and their pointers NULL; the
\* entries of output.track from this track on are not read again.
CreateTrackError ==
    /\ pc = "create_tracks"
    /\ \E i \in 1..Len(input) : \E j \in 1..input[i].num_tracks : \E calls \in 0..3 :
           LET created == CreateTracks(input, track_option, 1, 1, <<>>)
               n       == SumSeq([k \in 1..(i - 1) |-> input[k].num_tracks]) + j - 1
           IN  /\ sink' = [sink EXCEPT !.track =
                              [o \in 1..(n + IF calls >= 1 THEN 1 ELSE 0) |->
                                  FileTrack(created[o], IF o <= n THEN 4 ELSE calls)]]
               /\ Abort(input,
                        [OutputMovie(input, track_option) EXCEPT !.current_track_number = n + 1],
                        [k \in 1..Len(input) |->
                            IF k < i THEN FreedTrackOption(track_option[k])
                            ELSE track_option[k]],
                        MappedHeap(heap, track_option, i - 1),
                        <<CreateTrackMessage(calls)>>)
    /\ UNCHANGED <<argv, disk, cli, input_movie_number, largest_dts,
                   num_consecutive_sample_skip, num_active_input_tracks,
                   visits_without_transfer>>

(***************************************************************************)
(* The whole run of main, from the command line on.                        *)
(***************************************************************************)
\* The file InputNames[n] has n tracks; its track j has j samples, all of
\* the DTS j - 1 at the timescale 1, the alternate group 10 * j and an
\* undetermined language.
StandardFile(n) ==
    [ track       |-> [j \in 1..n |->
                         [ MediaTrack(1, [k \in 1..j |-> j - 1]) EXCEPT
                             !.alternate_group = 10 * j ]],
      movie_param |-> DefaultBrand ]

StandardDisk ==
    [name \in {<<InputNames[n]>> : n \in 1..MaxFileTracks} |->
        StandardFile(CHOOSE n \in 1..MaxFileTracks : <<InputNames[n]>> = name)]

\* What a command line is made of: an input (a file of the disk, or "-"),
\* an output, or "-h".
Items ==
    {<< <<"-i">>, <<InputNames[n]>> >> : n \in 1..MaxFileTracks}
    \cup {<< <<"-i">>, <<"-">> >>, << <<"-o">>, <<"out.mp4">> >>, << <<"-h">> >>}

\* The command lines of n items at most.
RECURSIVE CommandLines(_)
CommandLines(n) ==
    IF n = 0 THEN {<<>>}
    ELSE {<<>>} \cup {item \o rest : item \in Items, rest \in CommandLines(n - 1)}

\* What a command line may end with: nothing, or an option with no
\* argument behind it.
Endings == {<<>>, << <<"-i">> >>, << <<"-o">> >>}

RunInit ==
    \E line \in CommandLines(MaxItems) : \E ending \in Endings :
        StartMain(line \o ending, StandardDisk)

RunNext ==
    \/ DisplayHelp
    \/ NoInputFile
    \/ CallParseCliOption
    \/ GetInputMovie
    \/ InputArgumentMissing
    \/ GetInputMovieError
    \/ TrackOptionAllocError
    \/ OpenOutputMovie
    \/ OpenOutputMovieFails
    \/ OutputArgumentMissing
    \/ UnknownOption
    \/ ParseTrackOptions
    \/ OutputNotOpened
    \/ SetMovieParameters
    \/ SetMovieParametersError
    \/ ImportMetadata
    \/ ImportMetadataError
    \/ OutputTracksAllocError
    \/ CreateOutputTracks
    \/ CreateTrackError
    \/ Next

RunSpec == RunInit /\ [][RunNext]_vars

(***************************************************************************)
(* The run of main up to "Start muxing" with track options on the command  *)
(* line and no external operation failing.                                 *)
(***************************************************************************)
\* The text of a track number: nothing, a word, a digit (0 and one past
\* the tracks of the source included) or a digit with a word behind it.
NumberTexts(num_tracks) ==
    {<<>>, <<"x">>}
    \cup {<<DigitChars[d + 1]>> : d \in 0..(num_tracks + 1)}
    \cup {<<DigitChars[d + 1], "x">> : d \in 1..num_tracks}

ColonTexts == {<<>>, <<":">>, <<":", ":">>}

KeyTexts == {<<"alternate-group">>, <<"language">>, <<"x">>, <<"x", "language">>}

EqualTexts == {<<>>, <<"=">>, <<"=", "=">>}

ValueTexts == {<<"1">>, <<"jpn">>}

OptionTexts == {key \o eq \o value : key \in KeyTexts, eq \in EqualTexts, value \in ValueTexts}

\* n options at most, with a ',' between two of them.
RECURSIVE OptionLists(_)
OptionLists(n) ==
    IF n = 0 THEN {<<>>}
    ELSE {<<>>} \cup OptionTexts
         \cup {option \o <<",">> \o rest :
                  option \in OptionTexts, rest \in OptionLists(n - 1) \ {<<>>}}

\* Any of these texts as the one track option of a source.
AnySegments(num_tracks) ==
    {number \o colon \o options :
        number \in NumberTexts(num_tracks), colon \in ColonTexts,
        options \in OptionLists(MaxOptions)}

\* Track options of the grammar: a track of the source, a ':' and one or
\* two options, each an alternate group or a language.
GoodOptionTexts ==
    { <<"alternate-group", "=", "1">>,
      <<"language", "=", "jpn">>,
      <<"alternate-group", "=", "1", ",", "alternate-group", "=", "2">>,
      <<"alternate-group", "=", "2", ",", "language", "=", "jpn">> }

GoodSegments(num_tracks) ==
    {<<DigitChars[d + 1], ":">> \o option : d \in 1..num_tracks, option \in GoodOptionTexts}

\* n of them at most, each behind a '?'.
RECURSIVE GoodSegmentLists(_, _)
GoodSegmentLists(num_tracks, n) ==
    IF n = 0 THEN {<<>>}
    ELSE {<<>>} \cup {<<"?">> \o segment \o rest :
                        segment \in GoodSegments(num_tracks),
                        rest \in GoodSegmentLists(num_tracks, n - 1)}

\* The number of '?' of a text.
Delimiters(text) == Cardinality({k \in 1..Len(text) : text[k] = "?"})

\* One source with one track option of any text.
AnyOptionInit ==
    \E n \in 1..MaxFileTracks : \E segment \in AnySegments(n) :
        StartMain(<< <<"-i">>, <<InputNames[n], "?">> \o segment,
                     <<"-o">>, <<"out.mp4">> >>,
                  StandardDisk)

\* Two sources with MaxSegments track options of the grammar at most in all.
GoodOptionInit ==
    \E n1 \in 1..MaxFileTracks : \E n2 \in 1..MaxFileTracks :
        \E s1 \in GoodSegmentLists(n1, MaxSegments) :
            \E s2 \in GoodSegmentLists(n2, MaxSegments - Delimiters(s1)) :
                StartMain(<< <<"-i">>, <<InputNames[n1]>> \o s1,
                             <<"-i">>, <<InputNames[n2]>> \o s2,
                             <<"-o">>, <<"out.mp4">> >>,
                          StandardDisk)

OptionInit == AnyOptionInit \/ GoodOptionInit

OptionNext ==
    \/ CallParseCliOption
    \/ GetInputMovie
    \/ OpenOutputMovie
    \/ TooManyTrackOptions
    \/ ParseTrackOptionError
    \/ ParseTrackOptions
    \/ SetMovieParameters
    \/ ImportMetadata
    \/ CreateOutputTracks

OptionSpec == OptionInit /\ [][OptionNext]_vars

(***************************************************************************)
(* What the claims speak of.                                               *)
(***************************************************************************)
\* The samples appended to the output track of ID o, in order.
SamplesOf(o) == SelectSeq(sink.samples, LAMBDA s : s.track_ID = o)

\* The timeline of the input track that output track o was created for.
SourceTimeline(o) ==
    LET from == sink.track[o].decoder_specific_info
    IN  input[from[1]].timeline[from[2]]

\* The (source, track) pairs.
TrackPairs ==
    UNION {{<<i, j>> : j \in 1..input[i].num_tracks} : i \in 1..Len(input)}

AfterLoop == pc \in {"flush", "copy_timeline_map", "finish", "done"}

(***************************************************************************)
(* C1: for every output track the sample numbers appended to it so far are *)
(* 1, 2, ..., k in this order, k not above the sample count of its source  *)
(* track, and no sample of any source track was appended twice.            *)
(***************************************************************************)
C1_TransferredInOrder ==
    /\ \A o \in DOMAIN sink.track :
           /\ \A k \in 1..Len(SamplesOf(o)) : SamplesOf(o)[k].sample_number = k
           /\ Len(SamplesOf(o)) <= Len(SourceTimeline(o))
    /\ \A a, b \in 1..Len(sink.samples) :
           ( /\ sink.samples[a].movie = sink.samples[b].movie
             /\ sink.samples[a].in_track_ID = sink.samples[b].in_track_ID
             /\ sink.samples[a].sample_number = sink.samples[b].sample_number )
           => a = b

\* Two tracks were served in turn and one of them has two samples.
C1_Witness ==
    /\ \E o \in DOMAIN sink.track : Len(SamplesOf(o)) >= 2
    /\ \E o \in DOMAIN sink.track : Len(SamplesOf(o)) = 1

(***************************************************************************)
(* C2: with no external operation failing, the muxing loop is left after   *)
(* finitely many iterations, whatever the sample counts (0 included), the  *)
(* timescales and the non-decreasing timestamps.                           *)
(***************************************************************************)
C2_LoopTerminates == <>(pc # "muxing")

\* The loop was left with a track of no sample, two timescales, and
\* samples appended.
C2_Witness ==
    /\ pc = "flush"
    /\ \E p \in TrackPairs : input[p[1]].timeline[p[2]] = <<>>
    /\ \E p, q \in TrackPairs :
           input[p[1]].track[p[2]].timescale # input[q[1]].track[q[2]].timescale
    /\ Len(sink.samples) >= 2

(***************************************************************************)
(* C3: the loop is left for the flush only when num_active_input_tracks    *)
(* became 0; every track is then marked as ended and its cursor is its     *)
(* sample count plus one.  While the loop runs the count is positive.      *)
(***************************************************************************)
C3_ExitOnlyWhenDrained ==
    /\ pc = "muxing" => num_active_input_tracks >= 1
    /\ AfterLoop =>
           /\ num_active_input_tracks = 0
           /\ \A p \in TrackPairs :
                  /\ input[p[1]].track[p[2]].reach_end_of_media_timeline
                  /\ input[p[1]].track[p[2]].current_sample_number
                         = Len(input[p[1]].timeline[p[2]]) + 1

C3_Witness ==
    /\ pc = "flush"
    /\ Len(sink.samples) >= 3
    /\ Cardinality(TrackPairs) >= 2

(***************************************************************************)
(* C4 (as claimed): with two sources of one track each, equal timescales   *)
(* and the timestamps 0,1,2 and 0,2 the samples are appended in the order  *)
(* (S1,1)@0, (S2,1)@0, (S1,2)@1, (S1,3)@2, (S2,2)@2.                       *)
(***************************************************************************)
IsScenario ==
    /\ Len(input) = 2
    /\ input[1].num_tracks = 1 /\ input[2].num_tracks = 1
    /\ input[1].track[1].timescale = input[2].track[1].timescale
    /\ input[1].timeline[1] = <<0, 1, 2>>
    /\ input[2].timeline[1] = <<0, 2>>

\* The samples appended so far as (source, sample number, DTS).
TransferOrder ==
    [k \in 1..Len(sink.samples) |->
        <<sink.samples[k].movie, sink.samples[k].sample_number, sink.samples[k].dts>>]

C4_ClaimedOrder ==
    (IsScenario /\ AfterLoop) =>
        TransferOrder = << <<1, 1, 0>>, <<2, 1, 0>>, <<1, 2, 1>>, <<1, 3, 2>>, <<2, 2, 2>> >>

(***************************************************************************)
(* C4 (amended): in that scenario the order is (S1,1)@0, (S2,1)@0,         *)
(* (S1,2)@1, (S2,2)@2, (S1,3)@2: the second sample of S2 is forced by the  *)
(* escape valve before the third sample of S1.                             *)
(***************************************************************************)
C4_ScenarioOrder ==
    (IsScenario /\ AfterLoop) =>
        TransferOrder = << <<1, 1, 0>>, <<2, 1, 0>>, <<1, 2, 1>>, <<2, 2, 2>>, <<1, 3, 2>> >>

C4_Witness == IsScenario /\ pc = "flush"

(***************************************************************************)
(* C5 (as claimed): between two consecutive transfers on a track that has  *)
(* not ended, the scheduler visits that track at most                      *)
(* num_active_input_tracks times without transferring from it.             *)
(***************************************************************************)
C5_ClaimedPerTrackBound ==
    \A p \in TrackPairs :
        ~input[p[1]].track[p[2]].reach_end_of_media_timeline
        => visits_without_transfer[p[1]][p[2]].own <= num_active_input_tracks

(***************************************************************************)
(* C5 (amended): between two consecutive transfers of the scheduler, on    *)
(* whichever tracks, the scheduler visits a track that has not ended at    *)
(* most num_active_input_tracks times without transferring from it.        *)
(***************************************************************************)
C5_BoundBetweenTransfers ==
    \A p \in TrackPairs :
        ~input[p[1]].track[p[2]].reach_end_of_media_timeline
        => visits_without_transfer[p[1]][p[2]].any <= num_active_input_tracks

\* Every active track was passed over since the last transfer.
C5_Witness ==
    /\ pc = "muxing"
    /\ num_active_input_tracks >= 2
    /\ \A p \in TrackPairs : visits_without_transfer[p[1]][p[2]].any = 1
    /\ sink.samples # <<>>

(***************************************************************************)
(* C6: num_consecutive_sample_skip <= num_active_input_tracks in every     *)
(* state, also right after a track is marked as ended (the count of active *)
(* tracks goes down and the skips are not reset).                          *)
(***************************************************************************)
C6_SkipsAtMostActive == num_consecutive_sample_skip <= num_active_input_tracks

\* A track has ended while samples were being skipped, and the skips now
\* equal the active tracks.
C6_Witness ==
    /\ pc = "muxing"
    /\ \E p \in TrackPairs : input[p[1]].track[p[2]].reach_end_of_media_timeline
    /\ num_consecutive_sample_skip >= 1
    /\ num_consecutive_sample_skip = num_active_input_tracks

(***************************************************************************)
(* C7: largest_dts is 0 at the start and no step makes it smaller.         *)
(***************************************************************************)
C7_WatermarkMonotone ==
    /\ largest_dts = Seconds(0, 1)
    /\ [][SecondsLeq(largest_dts, largest_dts')]_vars

\* The watermark has moved, and a sample not above it was appended after.
C7_Witness ==
    /\ ~SecondsLeq(largest_dts, Seconds(0, 1))
    /\ \E k \in 1..Len(sink.samples) :
           ~SecondsLeq(largest_dts,
                       Seconds(sink.samples[k].dts, sink.samples[k].timescale))
    /\ LET last == sink.samples[Len(sink.samples)]
       IN  ~SecondsLeq(largest_dts, Seconds(last.dts, last.timescale))

(***************************************************************************)
(* C8: while the loop runs, the output cursor is on the output track that  *)
(* was created for the (source, track) under the input cursors; every      *)
(* sample was appended to the output track created for its own source      *)
(* track; a timeline map is copied from that same source track.            *)
(***************************************************************************)
C8_CursorsPaired ==
    /\ pc = "muxing" =>
           sink.track[out_track.track_ID].decoder_specific_info
               = <<input_movie_number, in_track.track_ID>>
    /\ \A k \in 1..Len(sink.samples) :
           sink.track[sink.samples[k].track_ID].decoder_specific_info
               = <<sink.samples[k].movie, sink.samples[k].in_track_ID>>
    /\ \A o \in DOMAIN sink.track :
           sink.track[o].timeline_map # <<>>
           => sink.track[o].timeline_map = sink.track[o].decoder_specific_info

\* The cursors have wrapped around, two sources, and the maps are copied.
C8_Witness ==
    /\ pc = "finish"
    /\ Len(input) >= 2
    /\ Len(sink.samples) >= 3

(***************************************************************************)
(* C9: the output major_brand and minor_version are those of the pair that *)
(* the most sources have; among the pairs that the most sources have, the  *)
(* one whose first source comes first.                                     *)
(***************************************************************************)
MajorPair(i) == <<input[i].movie_param.major_brand, input[i].movie_param.minor_version>>

SourcesWith(pair) == {i \in 1..Len(input) : MajorPair(i) = pair}

FirstSourceWith(pair) ==
    CHOOSE i \in SourcesWith(pair) : \A k \in SourcesWith(pair) : i <= k

C9_MostUsedMajorBrand ==
    pc = "import_metadata" =>
        LET chosen == <<output.movie_param.major_brand, output.movie_param.minor_version>>
        IN  /\ SourcesWith(chosen) # {}
            /\ \A k \in 1..Len(input) :
                   \/ Cardinality(SourcesWith(MajorPair(k))) < Cardinality(SourcesWith(chosen))
                   \/ /\ Cardinality(SourcesWith(MajorPair(k)))
                             = Cardinality(SourcesWith(chosen))
                      /\ FirstSourceWith(chosen) <= FirstSourceWith(MajorPair(k))

\* Two pairs tie with two sources each; the pair of the first source is
\* chosen although its other source comes last.
C9_Witness ==
    /\ pc = "import_metadata"
    /\ Len(input) = 4
    /\ Cardinality(SourcesWith(MajorPair(1))) = 2
    /\ MajorPair(2) # MajorPair(1)
    /\ Cardinality(SourcesWith(MajorPair(2))) = 2
    /\ MajorPair(4) = MajorPair(1)
    /\ <<output.movie_param.major_brand, output.movie_param.minor_version>> = MajorPair(1)

(***************************************************************************)
(* C10 (as claimed): every brand of any source is in the output brands,    *)
(* once, no other brand is, and the brands are in the order of their first *)
(* appearance, the sources taken in order.                                 *)
(***************************************************************************)
\* The places of a brand: (source, index in the source's list).
PlacesOf(brand) ==
    UNION {{<<i, j>> : j \in {j \in 1..Len(input[i].movie_param.brands) :
                                 input[i].movie_param.brands[j] = brand}}
           : i \in 1..Len(input)}

Before(p, q) == p[1] < q[1] \/ (p[1] = q[1] /\ p[2] < q[2])

FirstPlaceOf(brand) ==
    CHOOSE p \in PlacesOf(brand) : \A q \in PlacesOf(brand) : p = q \/ Before(p, q)

BrandsOfSources == UNION {Range(input[i].movie_param.brands) : i \in 1..Len(input)}

\* The output brands are exactly the brands of the set wanted, each once,
\* in the order of first appearance.
OutputBrandsAre(wanted) ==
    LET out == output.movie_param.brands
    IN  /\ Range(out) = wanted
        /\ \A x, y \in 1..Len(out) : out[x] = out[y] => x = y
        /\ \A x, y \in 1..Len(out) :
               x < y => Before(FirstPlaceOf(out[x]), FirstPlaceOf(out[y]))

C10_ClaimedUnion ==
    pc = "import_metadata" => OutputBrandsAre(BrandsOfSources)

(***************************************************************************)
(* C10 (amended): the same of every brand other than 0; a brand of 0 in a  *)
(* source is dropped.                                                      *)
(***************************************************************************)
C10_UnionOfNonZeroBrands ==
    pc = "import_metadata" => OutputBrandsAre(BrandsOfSources \ {0})

\* A brand of two sources is kept once, after a brand seen before it.
C10_Witness ==
    /\ pc = "import_metadata"
    /\ Len(output.movie_param.brands) = 2
    /\ \E b \in Range(output.movie_param.brands) :
           /\ Cardinality(PlacesOf(b)) >= 2
           /\ output.movie_param.brands[2] = b

(***************************************************************************)
(* C11: on every fatal-error exit everything acquired so far has been      *)
(* released when the run returns: the root, the track array and every      *)
(* exported metadata list of each source, the option array of each source, *)
(* the root and the track array of the output.                             *)
(***************************************************************************)
Balanced(c) == c.acquired = c.released

C11_AllReleasedOnError ==
    pc = "error" =>
        /\ \A i \in DOMAIN heap.input :
               /\ Balanced(heap.input[i].root)
               /\ Balanced(heap.input[i].track)
               /\ Balanced(heap.input[i].itunes_meta_list)
               /\ Balanced(heap.input[i].track_option)
        /\ Balanced(heap.output.root)
        /\ Balanced(heap.output.track)
        /\ Balanced(heap.output.itunes_meta_list)

(***************************************************************************)
(* How the command line reads, written from the grammar                    *)
(*   -i path[?track:option,option?track:option...]                         *)
(* and not from the parser.                                                *)
(***************************************************************************)
\* The pieces of a text between the delimiters, the empty ones included.
RECURSIVE Pieces(_, _)
Pieces(text, delim) ==
    IF \A p \in 1..Len(text) : text[p] # delim THEN <<text>>
    ELSE LET p == CHOOSE p \in 1..Len(text) :
                      text[p] = delim /\ \A q \in 1..(p - 1) : text[q] # delim
         IN  <<SubSeq(text, 1, p - 1)>> \o Pieces(SubSeq(text, p + 1, Len(text)), delim)

\* The places of -i on the command line, and the argument of the i-th.
InputPlaces == {p \in 1..Len(argv) : IsInputOption(argv[p])}

SourceArgument(i) ==
    argv[(CHOOSE p \in InputPlaces : Cardinality({q \in InputPlaces : q < p}) = i - 1) + 1]

\* The track options of the source i: what stands behind each '?'.
Segments(i) == Tail(Pieces(SourceArgument(i), "?"))

Keys == {"alternate-group", "language"}

\* digit ":" key "=" value ("," key "=" value)*, the digit a track of a
\* source of n tracks, the value of an alternate group a digit.
GrammarSegment(seg, n) ==
    /\ Len(seg) >= 5
    /\ (Len(seg) - 1) % 4 = 0
    /\ seg[1] \in {DigitChars[d + 1] : d \in 1..n}
    /\ seg[2] = ":"
    /\ \A m \in 0..((Len(seg) - 5) \div 4) :
           /\ seg[3 + 4 * m] \in Keys
           /\ seg[4 + 4 * m] = "="
           /\ seg[5 + 4 * m] \notin {":", "=", ",", "?"}
           /\ seg[3 + 4 * m] = "alternate-group" => IsDigit(seg[5 + 4 * m])
           /\ m > 0 => seg[2 + 4 * m] = ","

\* Every -i has a file of the disk behind it and track options of the
\* grammar, no more of them than the file has tracks.
GrammarCommandLine ==
    /\ \A p \in InputPlaces : p < Len(argv)
    /\ \A i \in 1..Cardinality(InputPlaces) :
           LET name == Pieces(SourceArgument(i), "?")[1]
               segs == Segments(i)
           IN  /\ name \in DOMAIN disk
               /\ Len(segs) <= Len(disk[name].track)
               /\ \A k \in 1..Len(segs) :
                      GrammarSegment(segs[k], Len(disk[name].track))

\* Where an option with the key is addressed to the track j of the source
\* i: <<k, m>> is the option number m + 1 of the segment k.
Addressed(i, j, key) ==
    LET segs == Segments(i)
    IN  {km \in (1..Len(segs)) \X (0..(Len(SourceArgument(i)) \div 4)) :
            /\ DigitValue(segs[km[1]][1]) = j
            /\ 3 + 4 * km[2] <= Len(segs[km[1]])
            /\ segs[km[1]][3 + 4 * km[2]] = key}

\* The value of the last of them.
LastValue(i, j, key) ==
    LET given == Addressed(i, j, key)
        km    == CHOOSE km \in given :
                     \A other \in given :
                         \/ other[1] < km[1]
                         \/ other[1] = km[1] /\ other[2] <= km[2]
    IN  Segments(i)[km[1]][5 + 4 * km[2]]

\* The output track of the track j of the source i.
OutputTrackOf(i, j) == SumSeq([k \in 1..(i - 1) |-> input[k].num_tracks]) + j

(***************************************************************************)
(* C12: the output track created for the track j of the source i carries   *)
(* the alternate group and the language of the track option addressed to   *)
(* (i, j) when one was given and the input track's own otherwise; an       *)
(* option addressed to one track changes no other track.                   *)
(***************************************************************************)
C12_OptionsReachTheirTrack ==
    pc = "muxing" /\ GrammarCommandLine =>
        \A i \in 1..Len(input) : \A j \in 1..input[i].num_tracks :
            LET created == sink.track[OutputTrackOf(i, j)]
                own     == disk[Pieces(SourceArgument(i), "?")[1]].track[j]
            IN  /\ created.track_param =
                       << IF Addressed(i, j, "alternate-group") = {}
                          THEN own.alternate_group
                          ELSE DigitValue(LastValue(i, j, "alternate-group")) >>
                /\ created.media_param =
                       << IF Addressed(i, j, "language") = {}
                          THEN own.ISO_language
                          ELSE [packed |-> <<LastValue(i, j, "language")>>] >>

\* The first track option of a source of two tracks is addressed to its
\* second track: the second output track of the source has the alternate
\* group of the option and the first has its own.
C12_Witness ==
    /\ pc = "muxing"
    /\ GrammarCommandLine
    /\ \E i \in 1..Len(input) :
           /\ input[i].num_tracks = 2
           /\ Len(Segments(i)) = 1
           /\ Addressed(i, 2, "alternate-group") # {}
           /\ sink.track[OutputTrackOf(i, 2)].track_param
                  = <<DigitValue(LastValue(i, 2, "alternate-group"))>>
           /\ sink.track[OutputTrackOf(i, 1)].track_param
                  = <<input[i].track[1].alternate_group>>
           /\ sink.track[OutputTrackOf(i, 1)].track_param
                  # sink.track[OutputTrackOf(i, 2)].track_param

(***************************************************************************)
(* C13: the parsing of the track options fails, and the run aborts with    *)
(* no output track created and no output parameter set, for every segment  *)
(* with no ':', with more than one ':', with a track number that is not an *)
(* integer of 1..(tracks of its source), with an option of more than one   *)
(* '=' or with an option whose key is neither alternate-group nor          *)
(* language.                                                               *)
(***************************************************************************)
Count(text, c) == Cardinality({p \in 1..Len(text) : text[p] = c})

\* The options of a segment with one ':': the pieces behind the ':' that
\* are not empty.
OptionsOf(seg) ==
    LET options == Pieces(Pieces(seg, ":")[2], ",")
    IN  {options[m] : m \in {m \in 1..Len(options) : options[m] # <<>>}}

\* A segment of the list above, for a source of n tracks.
Malformed(seg, n) ==
    \/ Count(seg, ":") = 0
    \/ Count(seg, ":") > 1
    \/ Count(seg, ":") = 1 /\
           LET number == Pieces(seg, ":")[1]
           IN  \/ Len(number) # 1
               \/ number[1] \notin {DigitChars[d + 1] : d \in 1..n}
    \/ Count(seg, ":") = 1 /\
           \E option \in OptionsOf(seg) :
               \/ Count(option, "=") > 1
               \/ Pieces(option, "=")[1] \notin {<<key>> : key \in Keys}

\* A segment (not empty) of some source is malformed.
MalformedCommandLine ==
    \E i \in 1..Cardinality(InputPlaces) :
        LET name == Pieces(SourceArgument(i), "?")[1]
        IN  /\ name \in DOMAIN disk
            /\ \E k \in 1..Len(Segments(i)) :
                   /\ Segments(i)[k] # <<>>
                   /\ Malformed(Segments(i)[k], Len(disk[name].track))

C13_MalformedOptionAborts ==
    MalformedCommandLine =>
        /\ pc \in {"main", "parse_cli_option", "error"}
        /\ sink = NoFile

(***************************************************************************)
(* C14: a run whose command line has no input, no -o or more than one -o   *)
(* fails before a sample is transferred.                                   *)
(***************************************************************************)
OutputPlaces == {p \in 1..Len(argv) : IsOutputOption(argv[p])}

C14_OneOutputOrNoTransfer ==
    InputPlaces = {} \/ Cardinality(OutputPlaces) # 1 =>
        /\ sink.samples = <<>>
        /\ pc # "done"

(***************************************************************************)
(* What the claims about the muxing loop speak of, written on the state    *)
(* and not with the operators of the loop.                                 *)
(***************************************************************************)
\* The tracks of the sources.
InputTracks == {ij \in (1..Len(input)) \X (1..MaxOutputTracks + 1) :
                   ij[2] <= input[ij[1]].num_tracks}

\* The track the loop is at.
VisitedTrack == <<input_movie_number, input[input_movie_number].current_track_number>>

TrackAt(ij) == input[ij[1]].track[ij[2]]

TimelineAt(ij) == input[ij[1]].timeline[TrackAt(ij).track_ID]

Exhausted(ij) == TrackAt(ij).reach_end_of_media_timeline

\* The sample at the cursor of the track exists.
HasSample(ij) == TrackAt(ij).current_sample_number <= Len(TimelineAt(ij))

\* Its timestamp d in ticks and the timescale t of the track.
TicksAt(ij) == TimelineAt(ij)[TrackAt(ij).current_sample_number]

\* d / t <= largest_dts and d / t > largest_dts, the timescales being
\* positive.
NotAhead(ij) == TicksAt(ij) * largest_dts[2] <= largest_dts[1] * TrackAt(ij).timescale

Ahead(ij) == TicksAt(ij) * largest_dts[2] > largest_dts[1] * TrackAt(ij).timescale

\* The loop visits a track that is not exhausted and has a sample at its
\* cursor, and the step is not the abort of the run.
DecisionStep ==
    /\ pc = "muxing"
    /\ pc' # "error"
    /\ ~Exhausted(VisitedTrack)
    /\ HasSample(VisitedTrack)

\* The step appends a sample to the output file.
TransferStep == sink'.samples # sink.samples

(***************************************************************************)
(* C15: when the loop visits a track that is not exhausted and whose       *)
(* current sample exists with the timestamp d in a track of timescale t,   *)
(* the sample is transferred in that step if and only if                   *)
(* d / t <= largest_dts or num_consecutive_sample_skip =                   *)
(* num_active_input_tracks; the comparison is of seconds, never of ticks.  *)
(***************************************************************************)
C15_TransferIffGoodTime ==
    [][ DecisionStep =>
          ( TransferStep <=>
              \/ NotAhead(VisitedTrack)
              \/ num_consecutive_sample_skip = num_active_input_tracks ) ]_vars

\* A track was skipped since the last transfer although the ticks of its
\* sample are not above the ticks of largest_dts: its seconds are.
C15_Witness ==
    /\ pc = "muxing"
    /\ \E ij \in InputTracks :
           /\ visits_without_transfer[ij[1]][ij[2]].any >= 1
           /\ ~Exhausted(ij)
           /\ HasSample(ij)
           /\ TicksAt(ij) <= largest_dts[1]
           /\ Ahead(ij)

(***************************************************************************)
(* C16: whenever a transfer is forced (the timestamp of the sample is      *)
(* ahead of largest_dts and num_consecutive_sample_skip =                  *)
(* num_active_input_tracks), every active track has been visited and       *)
(* skipped exactly once since the last transfer, so the next sample of     *)
(* every active track is ahead of largest_dts.                             *)
(***************************************************************************)
C16_ForcedAfterEveryTrackSkipped ==
    [][ DecisionStep /\ TransferStep /\ Ahead(VisitedTrack) =>
          /\ num_consecutive_sample_skip = num_active_input_tracks
          /\ \A ij \in InputTracks :
                 ~Exhausted(ij) =>
                     /\ visits_without_transfer[ij[1]][ij[2]].any = 1
                     /\ HasSample(ij)
                     /\ Ahead(ij) ]_vars

\* The last sample of the output file is later than every sample before
\* it, with two active tracks at least: its transfer was forced.
C16_Witness ==
    /\ pc = "muxing"
    /\ num_active_input_tracks >= 2
    /\ Len(sink.samples) >= 2
    /\ LET last == sink.samples[Len(sink.samples)]
       IN  \A k \in 1..(Len(sink.samples) - 1) :
               sink.samples[k].dts * last.timescale < last.dts * sink.samples[k].timescale

(***************************************************************************)
(* C17: a step that does not transfer changes nothing but this: a skip     *)
(* adds one to num_consecutive_sample_skip and leaves largest_dts, the     *)
(* sample cursors, the exhausted flags and num_active_input_tracks         *)
(* unchanged; a visit to an exhausted track leaves all of these and        *)
(* num_consecutive_sample_skip unchanged; in both only the round-robin     *)
(* cursor moves, by one position with wrap-around.                         *)
(***************************************************************************)
\* The place of the track in the order of the sources and their tracks.
Position(ij) == SumSeq([k \in 1..(ij[1] - 1) |-> input[k].num_tracks]) + ij[2]

TotalTracks == SumSeq([k \in 1..Len(input) |-> input[k].num_tracks])

\* The round-robin cursor moved by one place, and nothing else of the
\* movies, the output file and the counters but skip changed.
OnlyCursorMoves ==
    /\ \E ij \in InputTracks :
           /\ Position(ij) = (Position(VisitedTrack) % TotalTracks) + 1
           /\ input_movie_number' = ij[1]
           /\ input' = [k \in 1..Len(input) |->
                           [ input[k] EXCEPT !.current_track_number =
                               IF k = ij[1] THEN ij[2]
                               ELSE IF k = input_movie_number THEN 1
                               ELSE @ ]]
    /\ output' = [ output EXCEPT !.current_track_number =
                     (output.current_track_number % TotalTracks) + 1 ]
    /\ sink' = sink
    /\ largest_dts' = largest_dts
    /\ num_active_input_tracks' = num_active_input_tracks
    /\ heap' = heap
    /\ stderr' = stderr
    /\ pc' = pc

C17_NoTransferFrame ==
    [][ /\ ( DecisionStep
             /\ Ahead(VisitedTrack)
             /\ num_consecutive_sample_skip # num_active_input_tracks
             => /\ OnlyCursorMoves
                /\ num_consecutive_sample_skip' = num_consecutive_sample_skip + 1 )
        /\ ( pc = "muxing" /\ Exhausted(VisitedTrack)
             => /\ OnlyCursorMoves
                /\ num_consecutive_sample_skip' = num_consecutive_sample_skip ) ]_vars

\* The last track of the last source was skipped and the cursor is back
\* at the first track of the first source, an exhausted one.
C17_Witness ==
    /\ pc = "muxing"
    /\ Len(input) >= 2
    /\ VisitedTrack = <<1, 1>>
    /\ output.current_track_number = 1
    /\ Exhausted(<<1, 1>>)
    /\ visits_without_transfer[Len(input)][input[Len(input)].num_tracks].any = 1
    /\ num_consecutive_sample_skip >= 1

(***************************************************************************)
(* C18: flush, timeline-map copy and finish happen only after the loop was *)
(* left with num_active_input_tracks = 0, in this order: a flush of every  *)
(* output track (with the last sample delta of the input track it comes    *)
(* from), then a timeline-map copy for every output track, then the finish *)
(* once; no sample is appended after the first flush, and a failure of any *)
(* of them aborts the run with no later step executed.                     *)
(***************************************************************************)
AfterTheLoop == pc \in {"flush", "copy_timeline_map", "finish", "done"}

FlushedTracks == {o \in DOMAIN sink.track : sink.track[o].flushed # <<>>}

MappedTracks == {o \in DOMAIN sink.track : sink.track[o].timeline_map # <<>>}

FinalizerActed == FlushedTracks # {} \/ MappedTracks # {} \/ sink.finished

C18_FinalizerState ==
    /\ AfterTheLoop \/ FinalizerActed =>
           /\ num_active_input_tracks = 0
           /\ \A ij \in InputTracks : Exhausted(ij)
    /\ \A ij \in InputTracks :
           /\ Position(ij) \in FlushedTracks =>
                  sink.track[Position(ij)].flushed = <<TrackAt(ij).last_sample_delta>>
           /\ Position(ij) \in MappedTracks =>
                  sink.track[Position(ij)].timeline_map = <<ij[1], TrackAt(ij).track_ID>>
    /\ MappedTracks # {} => FlushedTracks = DOMAIN sink.track
    /\ sink.finished => MappedTracks = DOMAIN sink.track
    /\ pc \in {"copy_timeline_map", "finish", "done"} => FlushedTracks = DOMAIN sink.track
    /\ pc \in {"finish", "done"} => MappedTracks = DOMAIN sink.track
    /\ pc = "done" <=> sink.finished

C18_FinalizerSteps ==
    /\ FinalizerActed => sink'.samples = sink.samples
    /\ sink.finished => sink' = sink
    /\ pc = "error" => vars' = vars

C18_FinalizerInOrder == [] C18_FinalizerState /\ [][C18_FinalizerSteps]_vars

\* The run is done: two output tracks of different last sample deltas were
\* flushed and mapped, after samples were appended.
C18_Witness ==
    /\ pc = "done"
    /\ sink.finished
    /\ sink.samples # <<>>
    /\ FlushedTracks = DOMAIN sink.track
    /\ MappedTracks = DOMAIN sink.track
    /\ \E o, q \in DOMAIN sink.track : sink.track[o].flushed # sink.track[q].flushed

(***************************************************************************)
(* C19: if lsmash_append_sample fails, the sample in flight is released    *)
(* exactly once and the run aborts with the cursors of the track,          *)
(* largest_dts and num_consecutive_sample_skip unchanged; over any run     *)
(* every sample fetched is either taken by a successful append or released *)
(* by the loop, never both and never neither.                              *)
(***************************************************************************)
LastMessage(messages) == IF messages = <<>> THEN "" ELSE messages[Len(messages)]

\* The step that reports the failure of lsmash_append_sample.
AppendFailsStep ==
    stderr' # stderr /\ LastMessage(stderr') = "Failed to append a sample."

SampleCursors ==
    [ in  |-> [i \in 1..Len(input) |->
                  [j \in 1..input[i].num_tracks |-> input[i].track[j].current_sample_number]],
      out |-> [o \in 1..Len(output.track) |-> output.track[o].current_sample_number] ]

C19_FetchedSamples ==
    /\ \A k \in 1..Len(heap.sample) :
           heap.sample[k].appended + heap.sample[k].deleted = 1
    /\ Cardinality({k \in 1..Len(heap.sample) : heap.sample[k].appended = 1})
           = Len(sink.samples)

C19_AppendFailure ==
    AppendFailsStep =>
        /\ pc = "muxing" /\ pc' = "error"
        /\ Len(heap'.sample) = Len(heap.sample) + 1
        /\ SubSeq(heap'.sample, 1, Len(heap.sample)) = heap.sample
        /\ heap'.sample[Len(heap'.sample)] =
               [ sample   |-> [ movie         |-> VisitedTrack[1],
                               in_track_ID   |-> TrackAt(VisitedTrack).track_ID,
                               sample_number |-> TrackAt(VisitedTrack).current_sample_number ],
                 appended |-> 0,
                 deleted  |-> 1 ]
        /\ SampleCursors' = SampleCursors
        /\ largest_dts' = largest_dts
        /\ num_consecutive_sample_skip' = num_consecutive_sample_skip
        /\ sink' = sink

C19_SampleConsumedOrReleased == [] C19_FetchedSamples /\ [][C19_AppendFailure]_vars

\* The append of a sample failed after another sample was appended.
C19_Witness ==
    /\ pc = "error"
    /\ LastMessage(stderr) = "Failed to append a sample."
    /\ sink.samples # <<>>
    /\ Len(heap.sample) = Len(sink.samples) + 1
    /\ heap.sample[Len(heap.sample)].deleted = 1
    /\ heap.sample[1].appended = 1

(***************************************************************************)
(* C20: a track is marked exhausted only when the query of the timestamp   *)
(* fails and the sample at its cursor does not exist; when the query fails *)
(* while the sample exists, the run aborts, the track is not marked,       *)
(* num_active_input_tracks is not decremented and no further sample is     *)
(* transferred.                                                            *)
(***************************************************************************)
\* The step that reports the failure of lsmash_get_dts_from_media_timeline.
DtsFailsStep ==
    stderr' # stderr /\ LastMessage(stderr') = "Failed to get the DTS."

ExhaustedFlags ==
    [i \in 1..Len(input) |->
        [j \in 1..input[i].num_tracks |-> input[i].track[j].reach_end_of_media_timeline]]

C20_ExhaustionSteps ==
    /\ \A ij \in InputTracks :
           ~Exhausted(ij) /\ ExhaustedFlags'[ij[1]][ij[2]] =>
               /\ pc = "muxing"
               /\ ij = VisitedTrack
               /\ ~HasSample(ij)
               /\ num_active_input_tracks' = num_active_input_tracks - 1
               /\ stderr' = stderr
    /\ DtsFailsStep =>
           /\ pc = "muxing" /\ pc' = "error"
           /\ ~Exhausted(VisitedTrack)
           /\ HasSample(VisitedTrack)
           /\ ExhaustedFlags' = ExhaustedFlags
           /\ num_active_input_tracks' = num_active_input_tracks
           /\ sink' = sink
    /\ pc = "error" => sink' = sink /\ pc' = "error"

C20_ExhaustedOnlyWithoutSample == [][C20_ExhaustionSteps]_vars

\* The query failed on a track with a sample at its cursor, after one
\* track was marked exhausted and a sample was transferred.
C20_Witness ==
    /\ pc = "error"
    /\ LastMessage(stderr) = "Failed to get the DTS."
    /\ sink.samples # <<>>
    /\ ~Exhausted(VisitedTrack)
    /\ HasSample(VisitedTrack)
    /\ \E ij \in InputTracks : Exhausted(ij) /\ ~HasSample(ij)
    /\ num_active_input_tracks = Cardinality({ij \in InputTracks : ~Exhausted(ij)})

(***************************************************************************)
(* C21: on no path, to the success or to an error exit, is a resource      *)
(* released twice: an option array freed while the tracks are mapped is    *)
(* not freed again by a later remuxer_error, the success path releases     *)
(* each source and the output once, and the cleanup of a source that was   *)
(* never opened or only partly initialised releases only what was          *)
(* acquired.                                                               *)
(***************************************************************************)
\* The pointers of the program.
Pointers ==
    UNION {{heap.input[i].root, heap.input[i].track, heap.input[i].itunes_meta_list,
            heap.input[i].track_option} : i \in DOMAIN heap.input}
    \cup {heap.output.root, heap.output.track, heap.output.itunes_meta_list}

C21_NothingReleasedTwice ==
    /\ \A c \in Pointers :
           /\ c.released_again = 0
           /\ c.released <= c.acquired
    /\ pc = "done" =>
           /\ \A i \in DOMAIN heap.input :
                  /\ heap.input[i].root.released = 1
                  /\ heap.input[i].track.released = 1
                  /\ heap.input[i].itunes_meta_list.released = 1
                  /\ heap.input[i].track_option.released = 1
           /\ heap.output.root.released = 1
           /\ heap.output.track.released = 1

\* A track of the second source is not created: the option array of the
\* first source was freed by the mapping, the one of the second by
\* remuxer_error.
C21_Witness ==
    /\ pc = "error"
    /\ LastMessage(stderr) = "Failed to create a track."
    /\ Len(input) >= 2
    /\ ~track_option[1].alloc
    /\ track_option[2].alloc
    /\ heap.input[1].track_option.released = 1
    /\ heap.input[2].track_option.released = 1
    /\ heap.input[2].root.released = 1
    /\ heap.output.track.released = 1

(***************************************************************************)
(* C22: in every state of the muxing loop before it is left,               *)
(* num_active_input_tracks is the number of tracks whose                   *)
(* reach_end_of_media_timeline is not set, and a flag once set is never    *)
(* cleared: the count never increases and goes down by one exactly when a  *)
(* track is marked.                                                        *)
(***************************************************************************)
ActiveTracks == {ij \in InputTracks : ~Exhausted(ij)}

\* The tracks that the step marks.
MarkedByStep == {ij \in ActiveTracks : ExhaustedFlags'[ij[1]][ij[2]]}

C22_ActiveCountSteps ==
    /\ \A ij \in InputTracks : Exhausted(ij) => ExhaustedFlags'[ij[1]][ij[2]]
    /\ Cardinality(MarkedByStep) <= 1
    /\ num_active_input_tracks' = num_active_input_tracks - Cardinality(MarkedByStep)

C22_ActiveCountIsUnmarkedTracks ==
    /\ [](pc = "muxing" => num_active_input_tracks = Cardinality(ActiveTracks))
    /\ [][C22_ActiveCountSteps]_vars

\* A track was marked after its samples were transferred and another is
\* still active, with a sample at its cursor.
C22_Witness ==
    /\ pc = "muxing"
    /\ \E ij \in InputTracks \ ActiveTracks : TimelineAt(ij) # <<>>
    /\ num_active_input_tracks = 1
    /\ \E ij \in ActiveTracks : HasSample(ij)
    /\ sink.samples # <<>>

(***************************************************************************)
(* C23: in every state of the muxing loop largest_dts is the largest       *)
(* timestamp in seconds of the samples transferred so far, and 0 when none *)
(* was transferred; so every transfer that is not forced has a timestamp   *)
(* that is 0 or not above the timestamp of a sample transferred before.    *)
(***************************************************************************)
\* The sample k of the output file is not later than the sample l, the
\* timescales being positive.
NotLater(k, l) ==
    sink.samples[k].dts * sink.samples[l].timescale
        <= sink.samples[l].dts * sink.samples[k].timescale

\* The samples of the output file that no sample is later than.
LatestSamples ==
    {l \in 1..Len(sink.samples) : \A k \in 1..Len(sink.samples) : NotLater(k, l)}

C23_WatermarkState ==
    pc = "muxing" =>
        /\ sink.samples = <<>> => largest_dts[1] = 0
        /\ sink.samples # <<>> =>
               \A l \in LatestSamples :
                   sink.samples[l].dts * largest_dts[2]
                       = largest_dts[1] * sink.samples[l].timescale

C23_UnforcedTransfer ==
    /\ DecisionStep
    /\ TransferStep
    /\ ~(Ahead(VisitedTrack) /\ num_consecutive_sample_skip = num_active_input_tracks)
    => \/ TicksAt(VisitedTrack) = 0
       \/ \E k \in 1..Len(sink.samples) :
              TicksAt(VisitedTrack) * sink.samples[k].timescale
                  <= sink.samples[k].dts * TrackAt(VisitedTrack).timescale

C23_WatermarkIsLargestTransferred ==
    [] C23_WatermarkState /\ [][C23_UnforcedTransfer]_vars

\* The last sample transferred is earlier than one before it: largest_dts
\* is above 0 and is not the timestamp of the last sample.
C23_Witness ==
    /\ pc = "muxing"
    /\ Len(sink.samples) >= 2
    /\ Len(sink.samples) \notin LatestSamples
    /\ largest_dts[1] > 0
    /\ \E l \in LatestSamples :
           sink.samples[l].dts * largest_dts[2] = largest_dts[1] * sink.samples[l].timescale

====
